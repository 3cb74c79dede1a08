----------------------------- MODULE Switchover -----------------------------
(***************************************************************************)
(* The move of the PostgreSQL primary between the clusters:                *)
(* `cm db switchover` (engine/clustermotion/database.py), the two          *)
(* CloudNativePG Clusters it patches (gitops/charts/shop/templates/        *)
(* database.yaml), the DNS record and the pooled connections of orders-svc *)
(* (services/orders/app/db.py).                                            *)
(*                                                                         *)
(* A position in the WAL is the set of the writes up to it.  A refused     *)
(* switchover and a refused write change nothing and have no action.       *)
(***************************************************************************)
EXTENDS Naturals

CONSTANTS
    Color,        \* the clusters
    First,        \* the one with the primary to begin with
    Leading,      \* the first of COLORS
    Other,        \* config.other
    Write, Base,  \* the writes of orders-svc; Base is in the base backup
    Pod,          \* pods of orders-svc, of either cluster
    Engine,       \* places where somebody can run `cm`
    NoColor,      \* no target
    Targets,      \* the targets switchovers are asked for
    ClearsToken,  \* whether a promotion clears status.demotionToken
    MaxRuns,      \* bound on the switchovers
    MaxStops,     \* bound on the timeouts, errors and crashes of the engine
    MaxPoints     \* bound on the uses of `cm db point`

ASSUME TwoColors ==
    /\ First \in Color /\ Leading \in Color /\ NoColor \notin Color /\ Targets \subseteq Color
    /\ Other \in [Color -> Color]
    /\ \A c \in Color : Other[c] # c /\ Other[Other[c]] = c
    /\ \A c, d \in Color : d = c \/ d = Other[c]
ASSUME BaseIsAWrite == Base \in Write
ASSUME ClearsTokenIsBoolean == ClearsToken \in BOOLEAN
ASSUME BoundsAreNatural == MaxRuns \in Nat /\ MaxStops \in Nat /\ MaxPoints \in Nat

VARIABLES
    replica,        \* spec.replica of each Cluster
    demotionToken,  \* status.demotionToken of each Cluster
    mode,           \* what the PostgreSQL of each Cluster does
    log, archive,   \* its WAL, and the part of it in the object store
    dns,            \* where the record of the database points
    annotation,     \* clustermotion.io/db-primary on each cluster secret
    conn,           \* the cluster each pod's connections lead to
    committed,      \* the writes clients got confirmed
    pc, to, token,  \* each run of switchover: its step, target and token
    overtaken,      \* runs since whose start one began in the other direction (history)
    crossed,        \* places where that befell a run with patches still to make (history)
    runs, stops, points

vars == <<replica, demotionToken, mode, log, archive, dns, annotation, conn, committed,
          pc, to, token, overtaken, crossed, runs, stops, points>>

dbVars == <<demotionToken, mode, log, archive>>
appVars == <<conn, committed>>
runVars == <<pc, to, token>>
history == <<overtaken, crossed>>
boundVars == <<history, runs, stops, points>>

NoToken == {}
----------------------------------------------------------------------------
(* CloudNativePG and PostgreSQL. *)

Writable(c) == mode[c] = "writable"
SpecPrimary(c) == replica[c].primary = c

\* The Cluster is no longer the primary of its topology: writes stop at once,
Demote(c) ==
    /\ ~SpecPrimary(c) /\ Writable(c)
    /\ mode' = [mode EXCEPT ![c] = "demoting"]
    /\ UNCHANGED <<replica, demotionToken, log, archive, dns, annotation, appVars, runVars,
                   boundVars>>

\* and the token appears when the last WAL is archived.
Demoted(c) ==
    /\ mode[c] = "demoting"
    /\ mode' = [mode EXCEPT ![c] = "recovery"]
    /\ archive' = [archive EXCEPT ![c] = log[c]]
    /\ demotionToken' = [demotionToken EXCEPT ![c] = log[c]]
    /\ UNCHANGED <<replica, log, dns, annotation, appVars, runVars, boundVars>>

\* archive_timeout.
Archive(c) ==
    /\ Writable(c) /\ archive[c] # log[c]
    /\ archive' = [archive EXCEPT ![c] = log[c]]
    /\ UNCHANGED <<replica, demotionToken, mode, log, dns, annotation, appVars, runVars,
                   boundVars>>

Replay(c) ==
    /\ mode[c] = "recovery"
    /\ log[c] \subseteq archive[Other[c]] /\ log[c] # archive[Other[c]]
    /\ log' = [log EXCEPT ![c] = archive[Other[c]]]
    /\ UNCHANGED <<replica, demotionToken, mode, archive, dns, annotation, appVars, runVars,
                   boundVars>>

\* Promotion waits for the WAL up to the promotion token.
Promote(c) ==
    /\ SpecPrimary(c) /\ mode[c] = "recovery" /\ replica[c].token \subseteq log[c]
    /\ mode' = [mode EXCEPT ![c] = "writable"]
    /\ demotionToken' = [demotionToken EXCEPT ![c] = IF ClearsToken THEN NoToken ELSE @]
    /\ UNCHANGED <<replica, log, archive, dns, annotation, appVars, runVars, boundVars>>
----------------------------------------------------------------------------
(* orders-svc. *)

Reconnect(p) ==
    /\ conn[p] # dns
    /\ conn' = [conn EXCEPT ![p] = dns]
    /\ UNCHANGED <<replica, dbVars, dns, annotation, committed, runVars, boundVars>>

CommitWrite(p) ==
    /\ Writable(conn[p])
    /\ \E w \in Write \ committed :
         /\ log' = [log EXCEPT ![conn[p]] = @ \cup {w}]
         /\ committed' = committed \cup {w}
    /\ UNCHANGED <<replica, demotionToken, mode, archive, dns, annotation, conn, runVars,
                   boundVars>>
----------------------------------------------------------------------------
(* cm db switchover. *)

Busy(e) == pc[e] # "idle"
Goto(e, step) == pc' = [pc EXCEPT ![e] = step]

\* status() calls a Cluster the primary by its spec alone.
rolesAreExpected(t) == SpecPrimary(Other[t]) /\ ~SpecPrimary(t)

\* A run that has not made both of its patches.
Patching(e) == pc[e] \in {"demote", "token", "promote"}

\* Nothing keeps two runs apart: the roles allow a second one for the same target until the
\* source is patched, and one in the other direction as soon as the target is.
Start(e, t) ==
    /\ ~Busy(e) /\ rolesAreExpected(t)
    /\ runs < MaxRuns /\ runs' = runs + 1
    /\ Goto(e, "demote")
    /\ to' = [to EXCEPT ![e] = t]
    /\ overtaken' = (overtaken \ {e}) \cup {f \in Engine : Busy(f) /\ to[f] # t}
    /\ crossed' = crossed \cup {f \in Engine : Patching(f) /\ to[f] # t}
    /\ UNCHANGED <<replica, dbVars, dns, annotation, appVars, token, stops, points>>

\* A merge patch: the promotion token of an earlier switchover stays.
PatchSource(e) ==
    /\ pc[e] = "demote" /\ Goto(e, "token")
    /\ replica' = [replica EXCEPT ![Other[to[e]]].primary = to[e]]
    /\ UNCHANGED <<dbVars, dns, annotation, appVars, to, token, boundVars>>

\* wait_for the demotion token of the source.  (Slip: read once, there or not.)
readOnce(e) == TRUE
awaited(e) == demotionToken[Other[to[e]]] # NoToken

ReadToken(e) ==
    /\ pc[e] = "token" /\ awaited(e)
    /\ token' = [token EXCEPT ![e] = demotionToken[Other[to[e]]]]
    /\ Goto(e, "promote")
    /\ UNCHANGED <<replica, dbVars, dns, annotation, appVars, to, boundVars>>

\* The primary and the token in one patch.  (Slip: the token is left out.)
promotionWithoutToken(e) == [primary |-> to[e], token |-> replica[to[e]].token]
promotion(e) == [primary |-> to[e], token |-> token[e]]

PatchTarget(e) ==
    /\ pc[e] = "promote" /\ Goto(e, "wait")
    /\ replica' = [replica EXCEPT ![to[e]] = promotion(e)]
    /\ UNCHANGED <<dbVars, dns, annotation, appVars, to, token, boundVars>>

\* wait_for promoted(): the target accepts writes.  (Slip: the token is enough.)
promotedByPatch(e) == SpecPrimary(to[e])
promoted(e) == Writable(to[e])

SeePromoted(e) ==
    /\ pc[e] = "wait" /\ promoted(e) /\ Goto(e, "point")
    /\ UNCHANGED <<replica, dbVars, dns, annotation, appVars, to, token, boundVars>>

\* The record the switchover sets.  (Slips: the source's; of a load balancer that
\* has no hostname yet.)
pointNowhere(e) == NoColor
pointSource(e) == Other[to[e]]
pointTarget(e) == to[e]

PointDns(e) ==
    /\ pc[e] = "point" /\ Goto(e, "annotate")
    /\ dns' = pointTarget(e)
    /\ UNCHANGED <<replica, dbVars, annotation, appVars, to, token, boundVars>>

\* The secrets of the two clusters, one after the other.  A missing one (404) is skipped; another
\* error is only a warning, and ends the loop.
secret(e) == IF pc[e] = "annotate" THEN Leading ELSE Other[Leading]

Annotate(e) ==
    /\ pc[e] \in {"annotate", "annotateOther"}
    /\ \/ annotation' = [annotation EXCEPT ![secret(e)] = to[e]]
       \/ UNCHANGED annotation
    /\ \/ pc[e] = "annotate" /\ Goto(e, "annotateOther")
       \/ (pc[e] = "annotate" => UNCHANGED annotation) /\ Goto(e, "idle")
    /\ UNCHANGED <<replica, dbVars, dns, appVars, to, token, boundVars>>

\* A wait times out, a call of an API fails, or the process dies: whatever was
\* patched stays patched.
Stop(e) ==
    /\ Busy(e) /\ Goto(e, "idle")
    /\ stops < MaxStops /\ stops' = stops + 1
    /\ UNCHANGED <<replica, dbVars, dns, annotation, appVars, to, token, history, runs, points>>

\* cm db point.
Point(t) ==
    /\ points < MaxPoints /\ points' = points + 1
    /\ dns' = t
    /\ UNCHANGED <<replica, dbVars, annotation, appVars, runVars, history, runs, stops>>
----------------------------------------------------------------------------
Init ==
    /\ replica = [c \in Color |-> [primary |-> First, token |-> NoToken]]
    /\ demotionToken = [c \in Color |-> NoToken]
    /\ mode = [c \in Color |-> IF c = First THEN "writable" ELSE "recovery"]
    /\ log = [c \in Color |-> {Base}] /\ archive = [c \in Color |-> {Base}]
    /\ dns = First /\ annotation = [c \in Color |-> First]
    /\ conn = [p \in Pod |-> First] /\ committed = {Base}
    /\ pc = [e \in Engine |-> "idle"] /\ to = [e \in Engine |-> NoColor]
    /\ token = [e \in Engine |-> NoToken]
    /\ overtaken = {} /\ crossed = {}
    /\ runs = 0 /\ stops = 0 /\ points = 0

Operator(c) == Demote(c) \/ Demoted(c) \/ Replay(c) \/ Promote(c)

Advance(e) ==
    \/ PatchSource(e) \/ ReadToken(e) \/ PatchTarget(e) \/ SeePromoted(e) \/ PointDns(e)
    \/ Annotate(e)

Next ==
    \/ \E c \in Color : Operator(c) \/ Archive(c) \/ Point(c)
    \/ \E p \in Pod : Reconnect(p) \/ CommitWrite(p)
    \/ \E e \in Engine : Advance(e) \/ Stop(e) \/ \E t \in Targets : Start(e, t)

Spec == Init /\ [][Next]_vars

\* The engine and the operator keep polling, and connections live 60 s.
Fairness ==
    /\ \A c \in Color : WF_vars(Operator(c))
    /\ \A e \in Engine : WF_vars(Advance(e))
    /\ \A p \in Pod : WF_vars(Reconnect(p))

FairSpec == Spec /\ Fairness
----------------------------------------------------------------------------
\* Every variable stays in its range.
TypeOK ==
    /\ replica \in [Color -> [primary : Color, token : SUBSET Write]]
    /\ demotionToken \in [Color -> SUBSET Write]
    /\ mode \in [Color -> {"writable", "demoting", "recovery"}]
    /\ log \in [Color -> SUBSET Write] /\ archive \in [Color -> SUBSET Write]
    /\ dns \in Color /\ annotation \in [Color -> Color]
    /\ conn \in [Pod -> Color] /\ committed \in SUBSET Write
    /\ pc \in [Engine -> {"idle", "demote", "token", "promote", "wait", "point", "annotate",
                        "annotateOther"}]
    /\ to \in [Engine -> Color \cup {NoColor}]
    /\ \A e \in Engine : Busy(e) => to[e] \in Color
    /\ token \in [Engine -> SUBSET Write]
    /\ overtaken \subseteq Engine /\ crossed \subseteq Engine
    /\ runs \in Nat /\ stops \in Nat /\ points \in Nat

\* No run began in the other direction while one still had patches to make.  It takes three
\* runs to break this, one of them stalled while another one finished its work.
Apart == crossed = {}

\* No split brain: the clusters never both accept writes, whatever timed out or
\* crashed between the patches of switchover and was started again, in either direction.
OneWriter == Apart => \A c, d \in Color : Writable(c) /\ Writable(d) => c = d

\* Zero data loss: a cluster that accepts writes has every write ever confirmed,
\* also after a switchback that found an old token.
NoWriteLost == Apart => \A c \in Color : Writable(c) => committed \subseteq log[c]

\* Why both hold, when a promotion clears the old token: at every point between two patches
\* one Cluster at most is named the primary, a cluster that still has a token was overtaken
\* by the other or has everything, the token a run carries is complete while nobody can
\* write, and a run that is past its patches is harmless to one in the other direction.
Active(c) == mode[c] \in {"writable", "demoting"}
Has(writes) == committed \subseteq writes

NamedIsQuiet == \A c \in Color : SpecPrimary(c) => ~SpecPrimary(Other[c]) /\ ~Active(Other[c])
ActiveIsComplete ==
    \A c \in Color : Active(c) => Has(log[c]) /\ demotionToken[c] = NoToken /\ ~Active(Other[c])
NamedIsComplete == \A c \in Color : SpecPrimary(c) => Has(replica[c].token) \/ Has(log[c])
TokenIsFresh == \A c \in Color : demotionToken[c] # NoToken =>
    Has(demotionToken[c]) \/ Has(log[Other[c]])
RunsAgree == \A e, f \in Engine : Patching(e) /\ Busy(f) /\ to[e] # to[f] =>
    ~Patching(f) /\ f \in overtaken
SafeRun(e, t, s) ==
    /\ Patching(e) => SpecPrimary(t) \/ ~Active(t)
    /\ pc[e] = "token" => ~SpecPrimary(s)
    /\ pc[e] = "promote" =>
         ~SpecPrimary(s) /\ ~Active(s) /\ (Has(token[e]) \/ Has(log[t]))
    /\ Busy(e) /\ ~Patching(e) /\ e \notin overtaken => SpecPrimary(t)
    /\ pc[e] \in {"point", "annotate", "annotateOther"} /\ e \notin overtaken => Writable(t)
RunIsSafe == \A e \in Engine : SafeRun(e, to[e], Other[to[e]])

InOrder ==
    NamedIsQuiet /\ ActiveIsComplete /\ NamedIsComplete /\ TokenIsFresh /\ RunsAgree /\ RunIsSafe
Handover == Apart => InOrder

\* A run tells DNS and GitOps of a primary only once it accepts writes and has every
\* confirmed write, unless a run in the other direction began meanwhile: nothing is looked
\* at again after the wait, so a run that was overtaken names a cluster that may be demoted.
Complete(c) == Writable(c) /\ committed \subseteq log[c]

AnnouncedIsWritable ==
    [][Apart => \A e \in Engine \ overtaken : pc'[e] # pc[e] =>
         /\ dns' # dns => Complete(dns')
         /\ \A c \in Color : annotation'[c] # annotation[c] => Complete(annotation'[c])]_vars

\* The two databases together are one store with pauses, up to a start that is not apart.
Visible == IF \E c \in Color : Writable(c) THEN log[CHOOSE c \in Color : Writable(c)] ELSE committed
OneStore == INSTANCE Store WITH writes <- Visible, up <- \E c \in Color : Writable(c)
StoreSpec == OneStore!Init /\ [][OneStore!Next \/ ~Apart]_<<Visible, \E c \in Color : Writable(c)>>

\* While nothing times out, nobody repoints DNS by hand and no run is overtaken, every pause
\* ends: a pod that lost the primary finds it again.
WritesResume ==
    \A p \in Pod : ~Writable(conn[p]) ~> Writable(conn[p]) \/ stops > 0 \/ points > 0 \/ overtaken # {}

\* "Rollback is the same command in the other direction": when no switchover is
\* running, one of the two directions passes the check of the roles.
ADirectionIsOpen == (\A e \in Engine : ~Busy(e)) => \E t \in Color : rolesAreExpected(t)
=============================================================================
