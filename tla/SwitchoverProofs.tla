-------------------------- MODULE SwitchoverProofs --------------------------
(***************************************************************************)
(* Theorems about the move of the primary, for every set of writes, pods   *)
(* and engines and any number of switchovers, timeouts and crashes.        *)
(***************************************************************************)
EXTENDS Switchover, TLAPS

\* Every variable keeps its type.
THEOREM TypeCorrect == Spec => []TypeOK
  <1>1. Init => TypeOK
    BY TwoColors, BaseIsAWrite DEF Init, TypeOK, NoToken, Busy
  <1>2. TypeOK /\ [Next]_vars => TypeOK'
    <2> SUFFICES ASSUME TypeOK, [Next]_vars PROVE TypeOK'
      OBVIOUS
    <2> USE DEF TypeOK
    <2>1. ASSUME NEW c \in Color, Operator(c) \/ Archive(c) PROVE TypeOK'
      <3>1. CASE Demote(c)
        BY <3>1 DEF Demote, Busy, appVars, runVars, boundVars, history
      <3>2. CASE Demoted(c)
        BY <3>2 DEF Demoted, Busy, appVars, runVars, boundVars, history
      <3>3. CASE Replay(c)
        BY <3>3, TwoColors DEF Replay, Busy, appVars, runVars, boundVars, history
      <3>4. CASE Promote(c)
        BY <3>4 DEF Promote, Busy, NoToken, appVars, runVars, boundVars, history
      <3>5. CASE Archive(c)
        BY <3>5 DEF Archive, Busy, appVars, runVars, boundVars, history
      <3> QED BY <2>1, <3>1, <3>2, <3>3, <3>4, <3>5 DEF Operator
    <2>2. ASSUME NEW t \in Color, Point(t) PROVE TypeOK'
      BY <2>2 DEF Point, Busy, dbVars, appVars, runVars, history
    <2>3. ASSUME NEW p \in Pod, Reconnect(p) PROVE TypeOK'
      BY <2>3 DEF Reconnect, Busy, dbVars, runVars, boundVars, history
    <2>4. ASSUME NEW p \in Pod, CommitWrite(p) PROVE TypeOK'
      <3>1. PICK w \in Write : /\ log' = [log EXCEPT ![conn[p]] = @ \cup {w}]
                               /\ committed' = committed \cup {w}
        BY <2>4 DEF CommitWrite
      <3>2. log' \in [Color -> SUBSET Write] /\ committed' \in SUBSET Write
        BY <3>1
      <3> QED BY <2>4, <3>2 DEF CommitWrite, Busy, runVars, boundVars, history
    <2>5. ASSUME NEW e \in Engine, Advance(e) PROVE TypeOK'
      <3>1. CASE PatchSource(e)
        <4>1. to[e] \in Color
          BY <3>1 DEF PatchSource, Busy
        <4>2. [replica[Other[to[e]]] EXCEPT !.primary = to[e]]
                 \in [primary : Color, token : SUBSET Write]
          <5>1. replica[Other[to[e]]] \in [primary : Color, token : SUBSET Write]
            BY <4>1, TwoColors
          <5>2. \A r \in [primary : Color, token : SUBSET Write], c \in Color :
                   [r EXCEPT !.primary = c] \in [primary : Color, token : SUBSET Write]
            OBVIOUS
          <5> QED BY <4>1, <5>1, <5>2, Zenon
        <4>3. replica' \in [Color -> [primary : Color, token : SUBSET Write]]
          BY <3>1, <4>2 DEF PatchSource
        <4>4. /\ UNCHANGED <<dbVars, dns, annotation, appVars, to, token, boundVars>>
              /\ pc' = [pc EXCEPT ![e] = "token"]
          BY <3>1 DEF PatchSource, Goto
        <4> QED BY <4>1, <4>3, <4>4 DEF Busy, dbVars, appVars, boundVars, history
      <3>2. CASE ReadToken(e)
        <4>1. to[e] \in Color /\ Other[to[e]] \in Color
          BY <3>2, TwoColors DEF ReadToken, Busy
        <4>2. token' \in [Engine -> SUBSET Write]
          BY <3>2, <4>1 DEF ReadToken, awaited
        <4> QED BY <3>2, <4>1, <4>2 DEF ReadToken, Goto, Busy, dbVars, appVars, boundVars, history
      <3>3. CASE PatchTarget(e)
        <4>1. to[e] \in Color /\ token[e] \in SUBSET Write
          BY <3>3 DEF PatchTarget, Busy
        <4>2. replica' \in [Color -> [primary : Color, token : SUBSET Write]]
          BY <3>3, <4>1 DEF PatchTarget, promotion
        <4> QED BY <3>3, <4>1, <4>2 DEF PatchTarget, Goto, Busy, dbVars, appVars, boundVars, history
      <3>4. CASE SeePromoted(e)
        BY <3>4 DEF SeePromoted, Goto, Busy, dbVars, appVars, boundVars, history
      <3>5. CASE PointDns(e)
        BY <3>5 DEF PointDns, pointTarget, Goto, Busy, dbVars, appVars, boundVars, history
      <3>6. CASE Annotate(e)
        <4>1. annotation' \in [Color -> Color]
          BY <3>6, TwoColors DEF Annotate, Busy, secret
        <4> QED BY <3>6, <4>1 DEF Annotate, Goto, Busy, dbVars, appVars, boundVars, history
      <3> QED BY <2>5, <3>1, <3>2, <3>3, <3>4, <3>5, <3>6 DEF Advance
    <2>6. ASSUME NEW e \in Engine, Stop(e) PROVE TypeOK'
      BY <2>6 DEF Stop, Goto, Busy, dbVars, appVars, history
    <2>7. ASSUME NEW e \in Engine, NEW t \in Targets, Start(e, t) PROVE TypeOK'
      BY <2>7, TwoColors DEF Start, Goto, Busy, dbVars, appVars
    <2>8. CASE UNCHANGED vars
      BY <2>8 DEF vars, Busy
    <2> QED BY <2>1, <2>2, <2>3, <2>4, <2>5, <2>6, <2>7, <2>8 DEF Next
  <1> QED BY <1>1, <1>2, PTL DEF Spec

\* The two clusters are each other's other.
LEMMA OtherFacts ==
    ASSUME NEW c \in Color
    PROVE  /\ Other[c] \in Color /\ Other[c] # c /\ Other[Other[c]] = c
           /\ \A d \in Color : d = c \/ d = Other[c]
  BY TwoColors

\* A step of the databases or of the pods keeps the hand-over safe.
LEMMA DatabasesKeepHandover ==
    ASSUME ClearsToken, TypeOK, InOrder, NEW c \in Color, Operator(c) \/ Archive(c)
    PROVE  InOrder'
  <1> USE OtherFacts DEF TypeOK, Patching, Active, Has, SpecPrimary, Busy, Writable, NoToken
  <1>1. CASE Demote(c)
    <2>1. /\ mode' = [mode EXCEPT ![c] = "demoting"] /\ mode[c] = "writable" /\ ~SpecPrimary(c)
          /\ UNCHANGED <<replica, demotionToken, log, committed, pc, to, token, overtaken>>
      BY <1>1 DEF Demote, appVars, runVars, boundVars, history
    <2>2. \A d \in Color : Active(d)' <=> Active(d)
      BY <2>1
    <2>3. NamedIsQuiet' /\ ActiveIsComplete' /\ NamedIsComplete'
      BY <2>1, <2>2 DEF InOrder, NamedIsQuiet, ActiveIsComplete, NamedIsComplete
    <2>4. TokenIsFresh' /\ RunsAgree'
      BY <2>1 DEF InOrder, TokenIsFresh, RunsAgree
    <2>5. RunIsSafe'
      BY <2>1, <2>2 DEF InOrder, RunIsSafe, SafeRun
    <2> QED BY <2>3, <2>4, <2>5 DEF InOrder
  <1>2. CASE Demoted(c)
    <2>1. /\ mode' = [mode EXCEPT ![c] = "recovery"] /\ mode[c] = "demoting"
          /\ demotionToken' = [demotionToken EXCEPT ![c] = log[c]]
          /\ UNCHANGED <<replica, log, committed, pc, to, token, overtaken>>
      BY <1>2 DEF Demoted, appVars, runVars, boundVars, history
    <2>2. Has(log[c]) /\ ~Active(Other[c]) /\ ~SpecPrimary(Other[c])
      BY <2>1 DEF InOrder, ActiveIsComplete, NamedIsQuiet
    <2>3. NamedIsQuiet' /\ NamedIsComplete'
      BY <2>1 DEF InOrder, NamedIsQuiet, NamedIsComplete
    <2>4. ActiveIsComplete'
      BY <2>1 DEF InOrder, ActiveIsComplete
    <2>5. TokenIsFresh'
      BY <2>1, <2>2 DEF InOrder, TokenIsFresh
    <2>6. RunsAgree'
      BY <2>1 DEF InOrder, RunsAgree
    <2>7. RunIsSafe'
      BY <2>1 DEF InOrder, RunIsSafe, SafeRun
    <2> QED BY <2>3, <2>4, <2>5, <2>6, <2>7 DEF InOrder
  <1>3. CASE Replay(c)
    <2>1. /\ log[c] \subseteq log'[c]
          /\ \A d \in Color : d # c => log'[d] = log[d]
          /\ mode[c] = "recovery"
          /\ UNCHANGED <<replica, demotionToken, mode, committed, pc, to, token, overtaken>>
      BY <1>3 DEF Replay, appVars, runVars, boundVars, history
    <2>2. \A d \in Color : Has(log[d]) => Has(log[d])'
      BY <2>1
    <2> QED BY <2>1, <2>2 DEF InOrder, NamedIsQuiet, ActiveIsComplete, NamedIsComplete, TokenIsFresh,
              RunsAgree, RunIsSafe, SafeRun
  <1>4. CASE Promote(c)
    <2>1. /\ mode' = [mode EXCEPT ![c] = "writable"] /\ mode[c] = "recovery" /\ SpecPrimary(c)
          /\ demotionToken' = [demotionToken EXCEPT ![c] = {}]
          /\ UNCHANGED <<replica, log, committed, pc, to, token, overtaken>>
      BY <1>4 DEF Promote, appVars, runVars, boundVars, history
    <2>2. Has(log[c])
      BY <1>4 DEF Promote, InOrder, NamedIsComplete
    <2>3. ~Active(Other[c]) /\ ~SpecPrimary(Other[c])
      BY <2>1 DEF InOrder, NamedIsQuiet, ActiveIsComplete, NamedIsComplete, TokenIsFresh,
              RunsAgree, RunIsSafe, SafeRun
    <2> QED BY <2>1, <2>2, <2>3 DEF InOrder, NamedIsQuiet, ActiveIsComplete, NamedIsComplete, TokenIsFresh,
              RunsAgree, RunIsSafe, SafeRun
  <1>5. CASE Archive(c)
    <2>1. UNCHANGED <<replica, demotionToken, mode, log, committed, pc, to, token, overtaken>>
      BY <1>5 DEF Archive, appVars, runVars, boundVars, history
    <2> QED BY <2>1 DEF InOrder, NamedIsQuiet, ActiveIsComplete, NamedIsComplete, TokenIsFresh,
              RunsAgree, RunIsSafe, SafeRun
  <1> QED BY <1>1, <1>2, <1>3, <1>4, <1>5 DEF Operator

LEMMA WritesKeepHandover ==
    ASSUME TypeOK, InOrder, NEW p \in Pod, CommitWrite(p)
    PROVE  InOrder'
  <1>1. PICK c \in Color : c = conn[p]
    BY DEF TypeOK
  <1>2. PICK w \in Write : /\ log' = [log EXCEPT ![c] = @ \cup {w}]
                           /\ committed' = committed \cup {w}
    BY <1>1 DEF CommitWrite
  <1>3. Active(c) /\ UNCHANGED <<replica, demotionToken, mode, pc, to, token, overtaken>>
    BY <1>1 DEF CommitWrite, Writable, Active, runVars, boundVars, history
  <1>4. /\ \A d \in Color : d = c \/ d = Other[c]
        /\ Other[c] \in Color /\ Other[c] # c /\ Other[Other[c]] = c
    BY OtherFacts
  <1>5. Has(log[c]) /\ demotionToken[c] = NoToken /\ ~Active(Other[c])
    BY <1>3 DEF InOrder, ActiveIsComplete
  <1>6. ~SpecPrimary(Other[c])
    BY <1>3, <1>4 DEF InOrder, NamedIsQuiet
  <1>7. Has(log[c])'
    BY <1>2, <1>5 DEF Has, TypeOK
  <1>8. \A d : (Active(d)' <=> Active(d)) /\ (SpecPrimary(d)' <=> SpecPrimary(d))
    BY <1>3 DEF Active, SpecPrimary
  <1>9. NamedIsQuiet' /\ RunsAgree'
    BY <1>3, <1>8 DEF InOrder, NamedIsQuiet, RunsAgree, Busy, Patching
  <1>10. ActiveIsComplete' /\ NamedIsComplete'
    <2>1. ASSUME NEW d \in Color, Active(d)'
          PROVE  Has(log[d])' /\ demotionToken'[d] = NoToken /\ ~Active(Other[d])'
      <3>1. d = c
        BY <1>4, <1>5, <1>8, <2>1
      <3> QED BY <1>3, <1>5, <1>7, <1>8, <3>1
    <2>2. ASSUME NEW d \in Color, SpecPrimary(d)' PROVE Has(log[d])'
      <3>1. d = c
        BY <1>4, <1>6, <1>8, <2>2
      <3> QED BY <1>7, <3>1
    <2> QED BY <2>1, <2>2 DEF ActiveIsComplete, NamedIsComplete, NoToken
  <1>11. TokenIsFresh'
    <2> SUFFICES ASSUME NEW d \in Color, demotionToken'[d] # NoToken PROVE Has(log[Other[d]])'
      BY DEF TokenIsFresh, NoToken
    <2>1. Other[d] = c
      BY <1>3, <1>4, <1>5
    <2> QED BY <1>7, <2>1
  <1>12. RunIsSafe'
    <2>1. ASSUME NEW e \in Engine, pc[e] = "promote" PROVE Has(log[to[e]])'
      <3>1. to[e] \in Color /\ ~Active(Other[to[e]])
        BY <2>1 DEF InOrder, RunIsSafe, SafeRun, TypeOK, Busy
      <3>2. to[e] = c
        BY <1>3, <1>4, <3>1, OtherFacts
      <3> QED BY <1>3, <1>7, <3>2
    <2>2. UNCHANGED <<pc, to, overtaken>> /\ \A d : Writable(d)' <=> Writable(d)
      BY <1>3 DEF Writable
    <2> QED BY <1>3, <1>8, <2>1, <2>2 DEF InOrder, RunIsSafe, SafeRun, Busy, Patching
  <1> QED BY <1>9, <1>10, <1>11, <1>12 DEF InOrder

\* A step of a run of switchover keeps the hand-over safe.
LEMMA EngineKeepsHandover ==
    ASSUME TypeOK, InOrder, NEW e \in Engine, Advance(e) \/ Stop(e)
    PROVE  InOrder'
  <1>1. Busy(e)
    BY DEF Advance, PatchSource, ReadToken, PatchTarget, SeePromoted, PointDns, Annotate,
           Stop, Busy
  <1>0. PICK t \in Color, s \in Color : t = to[e] /\ s = Other[to[e]]
    BY <1>1, OtherFacts DEF TypeOK
  <1>2. /\ s # t /\ Other[t] = s /\ Other[s] = t
        /\ \A d \in Color : d = s \/ d = t
    BY <1>0, OtherFacts
  <1>3. /\ UNCHANGED <<demotionToken, mode, log, committed, to, overtaken>>
        /\ \A f \in Engine : f # e => pc'[f] = pc[f] /\ token'[f] = token[f]
    BY DEF TypeOK, Advance, PatchSource, ReadToken, PatchTarget, SeePromoted, PointDns, Annotate,
           Stop, Goto, dbVars, appVars, boundVars, history
  <1>14. pc'[e] \in {"token", "promote"} => Patching(e)
    BY DEF TypeOK, Advance, PatchSource, ReadToken, PatchTarget, SeePromoted, PointDns, Annotate,
           Stop, Goto, Patching
  <1>15. pc'[e] # "demote"
    BY DEF TypeOK, Advance, PatchSource, ReadToken, PatchTarget, SeePromoted, PointDns, Annotate,
           Stop, Goto
  <1>16. \A f \in Engine : (Busy(f)' => Busy(f)) /\ (Patching(f)' => Patching(f))
    BY <1>1, <1>3, <1>14, <1>15 DEF Busy, Patching
  <1>4. RunsAgree'
    BY <1>3, <1>16 DEF InOrder, RunsAgree
  <1>5. /\ \A c : (Active(c)' <=> Active(c)) /\ (Writable(c)' <=> Writable(c))
        /\ \A x : Has(x)' <=> committed \subseteq x'
        /\ \A c : Has(log[c])' <=> Has(log[c])
    BY <1>3 DEF Active, Writable, Has
  <1>6. ActiveIsComplete' /\ TokenIsFresh'
    BY <1>3, <1>5 DEF InOrder, ActiveIsComplete, TokenIsFresh, Has, Active, NoToken
  <1>7. ASSUME UNCHANGED replica PROVE NamedIsQuiet' /\ NamedIsComplete'
    BY <1>3, <1>7 DEF InOrder, NamedIsQuiet, NamedIsComplete, SpecPrimary, Active, Has
  <1>12. \A f \in Engine : SafeRun(f, to[f], Other[to[f]])
    BY DEF InOrder, RunIsSafe
  <1>17. SafeRun(e, t, s)
    BY <1>0, <1>12
  <1>13. ASSUME Patching(e), \A f \in Engine : Busy(f) /\ to[f] = t => SafeRun(f, t, s)'
         PROVE  RunIsSafe'
    <2> SUFFICES ASSUME NEW f \in Engine PROVE SafeRun(f, to[f], Other[to[f]])'
      BY DEF RunIsSafe
    <2>1. CASE Busy(f) /\ to[f] = t
      <3>1. SafeRun(f, t, s)' /\ to'[f] = t /\ Other[to[f]] = s
        BY <1>0, <1>3, <1>13, <2>1
      <3> QED BY <1>3, <2>1, <3>1
    <2>2. CASE Busy(f) /\ to[f] # t
      <3>1. f # e /\ ~Patching(f) /\ f \in overtaken
        BY <1>0, <1>13, <2>2 DEF InOrder, RunsAgree
      <3> QED BY <1>3, <3>1 DEF SafeRun, Patching
    <2>3. CASE ~Busy(f)
      <3>1. ~Busy(f)' /\ ~Patching(f)'
        BY <1>16, <2>3 DEF Busy, Patching
      <3> QED BY <3>1 DEF SafeRun, Busy, Patching
    <2> QED BY <2>1, <2>2, <2>3
  <1>18. \A f \in Engine : to[f] = t => SafeRun(f, t, s)
    BY <1>0, <1>12
  <1>8. CASE PatchSource(e)
    <2>1. pc[e] = "demote" /\ pc'[e] = "token"
      BY <1>8 DEF PatchSource, Goto, TypeOK
    <2>2. replica'[t] = replica[t] /\ replica'[s].token = replica[s].token /\ replica'[s].primary = t
      <3>1. replica' = [replica EXCEPT ![s] = [replica[s] EXCEPT !.primary = t]]
        BY <1>0, <1>8 DEF PatchSource
      <3>2. replica[s] \in [primary : Color, token : SUBSET Write]
        BY DEF TypeOK
      <3> QED BY <1>2, <3>1, <3>2 DEF TypeOK
    <2>3. (SpecPrimary(t)' <=> SpecPrimary(t)) /\ ~SpecPrimary(s)'
      BY <1>0, <1>2, <2>2 DEF SpecPrimary
    <2>4. NamedIsQuiet'
      BY <1>0, <1>2, <1>3, <1>5, <2>3 DEF InOrder, NamedIsQuiet
    <2>5. NamedIsComplete'
      <3> SUFFICES ASSUME NEW c \in Color, SpecPrimary(c)'
                   PROVE  Has(replica[c].token)' \/ Has(log[c])'
        BY DEF NamedIsComplete
      <3>1. c = t /\ SpecPrimary(t)
        BY <1>2, <2>3
      <3>2. Has(replica[t].token) \/ Has(log[t])
        BY <3>1 DEF InOrder, NamedIsComplete
      <3> QED BY <1>3, <2>2, <3>1, <3>2 DEF Has
    <2>6. RunIsSafe'
      <3> SUFFICES ASSUME NEW f \in Engine, Busy(f), to[f] = t PROVE SafeRun(f, t, s)'
        BY <1>13, <2>1 DEF Patching
      <3>1. token'[f] = token[f]
        BY <1>8 DEF PatchSource
      <3> QED BY <1>3, <1>5, <1>18, <2>1, <2>3, <3>1 DEF SafeRun, Busy, Patching, Has
    <2> QED BY <1>4, <1>6, <2>4, <2>5, <2>6 DEF InOrder
  <1>9. CASE ReadToken(e)
    <2>1. /\ pc[e] = "token" /\ pc'[e] = "promote" /\ UNCHANGED replica
          /\ token'[e] = demotionToken[s] /\ demotionToken[s] # NoToken
      BY <1>0, <1>9 DEF ReadToken, Goto, awaited, TypeOK
    <2>2. ~SpecPrimary(s)
      BY <1>17, <2>1 DEF SafeRun
    <2>3. ~Active(s)
      BY <1>0, <1>2, <2>1 DEF InOrder, ActiveIsComplete
    <2>4. Has(demotionToken[s]) \/ Has(log[t])
      BY <1>0, <1>2, <2>1 DEF InOrder, TokenIsFresh
    <2>5. Has(token[e])' \/ Has(log[t])'
      BY <1>0, <1>3, <2>1, <2>4 DEF Has
    <2>6. \A c : SpecPrimary(c)' <=> SpecPrimary(c)
      BY <1>0, <2>1 DEF SpecPrimary
    <2>7. RunIsSafe'
      <3> SUFFICES ASSUME NEW f \in Engine, Busy(f), to[f] = t PROVE SafeRun(f, t, s)'
        BY <1>13, <2>1 DEF Patching
      <3>1. CASE f = e
        BY <1>3, <1>5, <1>17, <2>1, <2>2, <2>3, <2>5, <2>6, <3>1 DEF SafeRun, Busy, Patching
      <3>2. CASE f # e
        BY <1>3, <1>5, <1>18, <2>6, <3>2 DEF SafeRun, Busy, Patching, Has
      <3> QED BY <3>1, <3>2
    <2> QED BY <1>4, <1>6, <1>7, <2>1, <2>7 DEF InOrder
  <1>10. CASE PatchTarget(e)
    <2>1. /\ pc[e] = "promote" /\ pc'[e] = "wait"
          /\ replica' = [replica EXCEPT ![t] = [primary |-> t, token |-> token[e]]]
      BY <1>0, <1>10 DEF PatchTarget, promotion, Goto, TypeOK
    <2>2. ~SpecPrimary(s) /\ ~Active(s) /\ (Has(token[e]) \/ Has(log[t]))
      BY <1>17, <2>1 DEF SafeRun
    <2>3. replica'[t] = [primary |-> t, token |-> token[e]] /\ replica'[s] = replica[s]
      BY <1>0, <1>2, <2>1 DEF TypeOK
    <2>4. SpecPrimary(t)' /\ ~SpecPrimary(s)'
      BY <1>0, <2>2, <2>3 DEF SpecPrimary
    <2>5. Has(replica[t].token)' \/ Has(log[t])'
      BY <1>0, <1>3, <2>2, <2>3 DEF Has
    <2>6. NamedIsQuiet'
      BY <1>0, <1>2, <1>5, <2>2, <2>4 DEF NamedIsQuiet
    <2>7. NamedIsComplete'
      BY <1>0, <1>2, <2>4, <2>5 DEF NamedIsComplete
    <2>8. RunIsSafe'
      <3> SUFFICES ASSUME NEW f \in Engine, Busy(f), to[f] = t PROVE SafeRun(f, t, s)'
        BY <1>13, <2>1 DEF Patching
      <3>1. token' = token
        BY <1>10 DEF PatchTarget
      <3> QED BY <1>3, <1>5, <1>18, <2>1, <2>2, <2>4, <3>1 DEF SafeRun, Busy, Patching, Has
    <2> QED BY <1>4, <1>6, <2>6, <2>7, <2>8 DEF InOrder
  <1>11. ASSUME SeePromoted(e) \/ PointDns(e) \/ Annotate(e) \/ Stop(e) PROVE InOrder'
    <2>1. /\ UNCHANGED <<replica, token>>
          /\ \/ pc[e] = "wait" /\ pc'[e] = "point" /\ Writable(t)
             \/ pc[e] = "point" /\ pc'[e] = "annotate"
             \/ pc[e] = "annotate" /\ pc'[e] = "annotateOther"
             \/ pc'[e] = "idle"
      BY <1>0, <1>11 DEF SeePromoted, PointDns, Annotate, Stop, promoted, Goto, TypeOK
    <2>2. \A c : SpecPrimary(c)' <=> SpecPrimary(c)
      BY <1>0, <2>1 DEF SpecPrimary
    <2>3. \/ ~Busy(e)'
          \/ /\ pc'[e] \in {"point", "annotate", "annotateOther"}
             /\ e \in overtaken \/ (Writable(t) /\ SpecPrimary(t))
      BY <1>17, <2>1 DEF SafeRun, Busy, Patching
    <2>4. RunIsSafe'
      <3> SUFFICES ASSUME NEW f \in Engine PROVE SafeRun(f, to[f], Other[to[f]])'
        BY DEF RunIsSafe
      <3>1. CASE f = e
        <4>1. SafeRun(e, t, s)'
          BY <1>3, <1>5, <2>2, <2>3 DEF SafeRun, Busy, Patching
        <4> QED BY <1>0, <1>3, <3>1, <4>1
      <3>2. CASE f # e
        BY <1>3, <1>5, <1>12, <2>1, <2>2, <3>2 DEF SafeRun, Busy, Patching, Has
      <3> QED BY <3>1, <3>2
    <2> QED BY <1>4, <1>6, <1>7, <2>1, <2>4 DEF InOrder
  <1> QED BY <1>0, <1>8, <1>9, <1>10, <1>11 DEF Advance


\* A run starts only where the specs name the source.  It overtakes the runs in the other
\* direction; when these still have patches to make, the runs are no longer apart.
LEMMA StartKeepsHandover ==
    ASSUME TypeOK, InOrder, NEW e \in Engine, NEW t \in Targets, Start(e, t), Apart'
    PROVE  InOrder'
  <1>1. /\ t \in Color /\ Other[t] \in Color /\ Other[Other[t]] = t
        /\ ~Busy(e)
        /\ \A f \in Engine : Patching(f) => to[f] = t
        /\ \A f \in Engine : f \in overtaken' <=> (f \in overtaken /\ f # e) \/ (Busy(f) /\ to[f] # t)
    BY OtherFacts, TwoColors DEF Start, Apart
  <1>2. /\ UNCHANGED <<replica, demotionToken, mode, log, committed, token>>
        /\ \A f \in Engine : f # e => pc'[f] = pc[f] /\ to'[f] = to[f]
        /\ pc'[e] = "demote" /\ to'[e] = t /\ SpecPrimary(Other[t])
    BY <1>1 DEF Start, Goto, rolesAreExpected, dbVars, appVars, TypeOK
  <1>3. NamedIsQuiet' /\ ActiveIsComplete' /\ NamedIsComplete' /\ TokenIsFresh'
    BY <1>2 DEF InOrder, NamedIsQuiet, ActiveIsComplete, NamedIsComplete, TokenIsFresh,
                SpecPrimary, Active, Has
  <1>4. RunsAgree'
    <2> SUFFICES ASSUME NEW f \in Engine, NEW g \in Engine, Patching(f)', Busy(g)', to'[f] # to'[g]
                 PROVE  ~Patching(g)' /\ g \in overtaken'
      BY DEF RunsAgree
    <2>1. to'[f] = t
      BY <1>1, <1>2 DEF Patching
    <2>2. g # e /\ Busy(g) /\ to[g] # t
      BY <1>2, <2>1 DEF Busy
    <2> QED BY <1>1, <1>2, <2>2 DEF Patching
  <1>5. ~Active(t)
    BY <1>1, <1>2 DEF InOrder, NamedIsQuiet
  <1>6. RunIsSafe'
    <2> SUFFICES ASSUME NEW f \in Engine PROVE SafeRun(f, to[f], Other[to[f]])'
      BY DEF RunIsSafe
    <2>1. CASE f = e
      BY <1>2, <1>5, <2>1 DEF SafeRun, Busy, Patching, Active
    <2>2. CASE f # e
      <3>1. SafeRun(f, to[f], Other[to[f]]) /\ (f \in overtaken => f \in overtaken')
        BY <1>1, <2>2 DEF InOrder, RunIsSafe
      <3> QED BY <1>2, <2>2, <3>1 DEF SafeRun, Busy, Patching, SpecPrimary, Active, Writable, Has
    <2> QED BY <2>1, <2>2
  <1> QED BY <1>3, <1>4, <1>6 DEF InOrder

\* Between any two patches, crashes and restarts included, the move is safe, as long as no
\* run starts against one that still has patches to make.
THEOREM HandoverIsSafe ==
    ASSUME ClearsToken
    PROVE  Spec => []Handover
  <1>1. Init => Handover
    <2> SUFFICES ASSUME Init PROVE InOrder
      BY DEF Handover
    <2>1. \A c \in Color : SpecPrimary(c) => c = First
      BY DEF Init, SpecPrimary
    <2>2. \A c \in Color : Active(c) <=> c = First
      BY DEF Init, Active
    <2>3. \A c \in Color : Has(log[c]) /\ demotionToken[c] = NoToken
      BY DEF Init, Has
    <2>4. NamedIsQuiet /\ ActiveIsComplete /\ NamedIsComplete /\ TokenIsFresh
      BY <2>1, <2>2, <2>3, OtherFacts DEF NamedIsQuiet, ActiveIsComplete, NamedIsComplete,
                                         TokenIsFresh
    <2>5. RunsAgree /\ RunIsSafe
      BY DEF Init, RunsAgree, RunIsSafe, SafeRun, Busy, Patching
    <2> QED BY <2>4, <2>5 DEF InOrder
  <1>2. TypeOK /\ Handover /\ [Next]_vars => Handover'
    <2> SUFFICES ASSUME TypeOK, Handover, [Next]_vars, Apart' PROVE InOrder'
      BY DEF Handover
    <2>0. InOrder
      <3>1. crossed \subseteq crossed'
        BY DEF Next, vars, Operator, Demote, Demoted, Replay, Promote, Archive, Point, Reconnect,
               CommitWrite, Advance, PatchSource, ReadToken, PatchTarget, SeePromoted, PointDns,
               Annotate, Stop, Start, boundVars, history
      <3> QED BY <3>1 DEF Handover, Apart
    <2>1. ASSUME UNCHANGED <<replica, demotionToken, mode, log, committed, pc, to, token, overtaken>>
          PROVE  InOrder'
      BY <2>0, <2>1 DEF InOrder, NamedIsQuiet, ActiveIsComplete, NamedIsComplete, TokenIsFresh,
                  RunsAgree, RunIsSafe, SafeRun, SpecPrimary, Active, Writable, Has, Busy, Patching
    <2>2. ASSUME NEW c \in Color, Operator(c) \/ Archive(c) PROVE InOrder'
      BY <2>0, <2>2, DatabasesKeepHandover
    <2>3. ASSUME NEW c \in Color, Point(c) PROVE InOrder'
      BY <2>1, <2>3 DEF Point, dbVars, appVars, runVars, history
    <2>4. ASSUME NEW p \in Pod, Reconnect(p) PROVE InOrder'
      BY <2>1, <2>4 DEF Reconnect, dbVars, runVars, boundVars, history
    <2>5. ASSUME NEW p \in Pod, CommitWrite(p) PROVE InOrder'
      BY <2>0, <2>5, WritesKeepHandover
    <2>6. ASSUME NEW e \in Engine, Advance(e) \/ Stop(e) PROVE InOrder'
      BY <2>0, <2>6, EngineKeepsHandover
    <2>7. ASSUME NEW e \in Engine, NEW t \in Targets, Start(e, t) PROVE InOrder'
      BY <2>0, <2>7, StartKeepsHandover
    <2>8. CASE UNCHANGED vars
      BY <2>1, <2>8 DEF vars
    <2> QED BY <2>2, <2>3, <2>4, <2>5, <2>6, <2>7, <2>8 DEF Next
  <1> QED BY <1>1, <1>2, TypeCorrect, PTL DEF Spec

\* The clusters never both accept writes, while runs are apart.
THEOREM NoSplitBrain ==
    ASSUME ClearsToken
    PROVE  Spec => []OneWriter
  <1>1. Handover => OneWriter
    BY TwoColors DEF Handover, InOrder, ActiveIsComplete, OneWriter, Active, Writable
  <1> QED BY <1>1, HandoverIsSafe, PTL

\* A cluster that accepts writes has every confirmed write, while runs are apart.
THEOREM ZeroDataLoss ==
    ASSUME ClearsToken
    PROVE  Spec => []NoWriteLost
  <1>1. Handover => NoWriteLost
    BY DEF Handover, InOrder, ActiveIsComplete, NoWriteLost, Active, Has, Writable
  <1> QED BY <1>1, HandoverIsSafe, PTL

\* A run that was not overtaken points DNS at, and tells GitOps of, a primary that accepts
\* writes and is complete.
THEOREM AnnouncementsAreTrue ==
    ASSUME ClearsToken
    PROVE  Spec => AnnouncedIsWritable
  <1> DEFINE Told == /\ dns' # dns => Complete(dns')
                     /\ \A c \in Color : annotation'[c] # annotation[c] => Complete(annotation'[c])
             Step == Apart => \A e \in Engine \ overtaken : pc'[e] # pc[e] => Told
  <1>1. TypeOK /\ Handover /\ [Next]_vars => [Step]_vars
    <2> SUFFICES ASSUME TypeOK, Handover, [Next]_vars, Apart,
                        NEW e \in Engine \ overtaken, pc'[e] # pc[e]
                 PROVE  Told
      OBVIOUS
    <2>1. CASE UNCHANGED <<dns, annotation>>
      BY <2>1
    <2>2. ASSUME NEW f \in Engine, f # e, Advance(f)
          PROVE  FALSE
      BY <2>2 DEF TypeOK, Advance, PatchSource, ReadToken, PatchTarget, SeePromoted, PointDns,
                  Annotate, Goto
    <2>3. ASSUME pc[e] \in {"point", "annotate", "annotateOther"} PROVE Complete(to[e])
      <3>1. InOrder /\ to[e] \in Color /\ Writable(to[e])
        BY <2>3 DEF TypeOK, Busy, Handover, InOrder, RunIsSafe, SafeRun
      <3> QED BY <3>1 DEF InOrder, ActiveIsComplete, Active, Writable, Has, Complete
    <2>4. CASE PointDns(e)
      BY <2>3, <2>4 DEF PointDns, pointTarget
    <2>5. CASE Annotate(e)
      BY <2>3, <2>5 DEF Annotate, TypeOK
    <2>6. ASSUME NEW c \in Color, Operator(c) \/ Archive(c) PROVE Told
      BY <2>1, <2>6 DEF Operator, Demote, Demoted, Replay, Promote, Archive
    <2>7. ASSUME NEW p \in Pod, Reconnect(p) \/ CommitWrite(p) PROVE Told
      BY <2>1, <2>7 DEF Reconnect, CommitWrite
    <2>8. ASSUME NEW f \in Engine, Stop(f) \/ \E t \in Targets : Start(f, t) PROVE Told
      BY <2>1, <2>8 DEF Stop, Start
    <2>9. ASSUME NEW c \in Color, Point(c) PROVE FALSE
      BY <2>9 DEF Point, runVars
    <2>10. CASE Advance(e)
      BY <2>1, <2>4, <2>5, <2>10 DEF Advance, PatchSource, ReadToken, PatchTarget, SeePromoted
    <2>11. CASE UNCHANGED vars
      BY <2>1, <2>11 DEF vars
    <2> QED BY <2>2, <2>6, <2>7, <2>8, <2>9, <2>10, <2>11 DEF Next
  <1> QED BY <1>1, TypeCorrect, HandoverIsSafe, PTL DEF Spec, AnnouncedIsWritable

\* Nothing is in a log, or in the object store, that was not confirmed.
LEMMA LogsAreConfirmed ==
    Spec => [](\A c \in Color : log[c] \subseteq committed /\ archive[c] \subseteq committed)
  <1> DEFINE Inv == \A c \in Color : log[c] \subseteq committed /\ archive[c] \subseteq committed
  <1>1. Init => Inv
    BY DEF Init
  <1>2. TypeOK /\ Inv /\ [Next]_vars => Inv'
    <2> SUFFICES ASSUME TypeOK, Inv, [Next]_vars PROVE Inv'
      OBVIOUS
    <2>1. CASE UNCHANGED <<log, archive, committed>>
      BY <2>1
    <2>2. ASSUME NEW c \in Color, Operator(c) \/ Archive(c) PROVE Inv'
      <3>1. committed' = committed /\ Other[c] \in Color
        BY <2>2, OtherFacts DEF Operator, Demote, Demoted, Replay, Promote, Archive, appVars
      <3>2. \A d \in Color : log'[d] = log[d] \/ log'[d] = archive[Other[c]]
        BY <2>2 DEF Operator, Demote, Demoted, Replay, Promote, Archive, TypeOK
      <3>3. \A d \in Color : archive'[d] = archive[d] \/ archive'[d] = log[c]
        BY <2>2 DEF Operator, Demote, Demoted, Replay, Promote, Archive, TypeOK
      <3> QED BY <3>1, <3>2, <3>3
    <2>3. ASSUME NEW p \in Pod, CommitWrite(p) PROVE Inv'
      <3>1. PICK w \in Write : /\ log' = [log EXCEPT ![conn[p]] = @ \cup {w}]
                               /\ committed' = committed \cup {w} /\ archive' = archive
        BY <2>3 DEF CommitWrite
      <3>2. \A d \in Color : log'[d] \subseteq log[d] \cup {w}
        BY <3>1 DEF TypeOK
      <3> QED BY <3>1, <3>2
    <2>4. ASSUME NEW e \in Engine, Advance(e) \/ Stop(e) \/ \E t \in Targets : Start(e, t)
          PROVE  Inv'
      BY <2>1, <2>4 DEF Advance, PatchSource, ReadToken, PatchTarget, SeePromoted, PointDns,
                        Annotate, Stop, Start, dbVars, appVars
    <2>5. ASSUME NEW c \in Color, Point(c) PROVE Inv'
      BY <2>1, <2>5 DEF Point, dbVars, appVars
    <2>6. ASSUME NEW p \in Pod, Reconnect(p) PROVE Inv'
      BY <2>1, <2>6 DEF Reconnect, dbVars
    <2>7. CASE UNCHANGED vars
      BY <2>1, <2>7 DEF vars
    <2> QED BY <2>2, <2>3, <2>4, <2>5, <2>6, <2>7 DEF Next
  <1> QED BY <1>1, <1>2, TypeCorrect, PTL DEF Spec

\* The two databases together implement one store that pauses and loses nothing, as long as
\* no run starts against one that still has patches to make.
THEOREM DatabasesAreOneStore ==
    ASSUME ClearsToken
    PROVE  Spec => StoreSpec
  <1> DEFINE Logs == \A c \in Color : log[c] \subseteq committed /\ archive[c] \subseteq committed
             Up == \E c \in Color : Writable(c)
             I == TypeOK /\ Handover /\ Logs
  <1>1. ASSUME I, Apart PROVE Visible = committed
    <2>1. CASE Up
      <3>1. PICK c \in Color : Writable(c) /\ Visible = log[c]
        BY <2>1 DEF Visible
      <3>2. Has(log[c])
        BY <3>1, <1>1 DEF Handover, InOrder, ActiveIsComplete, Active, Writable
      <3> QED BY <1>1, <3>1, <3>2 DEF Has
    <2> QED BY <2>1 DEF Visible
  <1>2. ASSUME I', Apart' PROVE Visible' = committed'
    <2>1. CASE Up'
      <3>1. PICK c \in Color : Writable(c)' /\ Visible' = log'[c]
        BY <2>1 DEF Visible
      <3>2. Has(log[c])'
        BY <3>1, <1>2 DEF Handover, InOrder, ActiveIsComplete, Active, Writable
      <3> QED BY <1>2, <3>1, <3>2 DEF Has
    <2> QED BY <2>1 DEF Visible
  <1>3. Init /\ I => OneStore!Init
    <2> SUFFICES ASSUME Init, I PROVE OneStore!Init
      OBVIOUS
    <2>1. committed = {Base} /\ Writable(First) /\ First \in Color /\ Apart
      BY TwoColors DEF Init, Writable, Apart
    <2> QED BY <1>1, <2>1 DEF OneStore!Init
  <1>4. I /\ I' /\ [Next]_vars => [OneStore!Next \/ ~Apart]_<<Visible, Up>>
    <2> SUFFICES ASSUME I, I', [Next]_vars, Apart
                 PROVE  OneStore!Next \/ UNCHANGED <<Visible, Up>>
      OBVIOUS
    <2>1. CASE \E e \in Engine, t \in Targets : Start(e, t)
      <3>1. UNCHANGED <<log, mode, committed>>
        BY <2>1 DEF Start, dbVars, appVars
      <3> QED BY <3>1 DEF Visible, Writable
    <2>2. CASE ~\E e \in Engine, t \in Targets : Start(e, t)
      <3>1. Apart'
        BY <2>2 DEF Next, vars, Operator, Demote, Demoted, Replay, Promote, Archive, Point, Reconnect,
                    CommitWrite, Advance, PatchSource, ReadToken, PatchTarget, SeePromoted, PointDns,
                    Annotate, Stop, boundVars, history, Apart
      <3>2. Visible = committed /\ Visible' = committed'
        BY <1>1, <1>2, <3>1
      <3>3. ASSUME UNCHANGED committed
            PROVE  OneStore!Down \/ OneStore!Up \/ UNCHANGED <<Visible, Up>>
        BY <3>2, <3>3 DEF OneStore!Down, OneStore!Up
      <3>4. ASSUME NEW p \in Pod, CommitWrite(p) PROVE OneStore!Commit
        <4>1. PICK w \in Write \ committed : committed' = committed \cup {w}
          BY <3>4 DEF CommitWrite
        <4>2. Up /\ UNCHANGED Up
          BY <3>4 DEF CommitWrite, Writable, TypeOK
        <4> QED BY <3>2, <4>1, <4>2 DEF OneStore!Commit
      <3>5. ASSUME ~\E p \in Pod : CommitWrite(p) PROVE UNCHANGED committed
        BY <2>2, <3>5 DEF Next, vars, Operator, Demote, Demoted, Replay, Promote, Archive, Point,
                    Reconnect, Advance, PatchSource, ReadToken, PatchTarget, SeePromoted, PointDns,
                    Annotate, Stop, appVars
      <3> QED BY <3>3, <3>4, <3>5 DEF OneStore!Next
    <2> QED BY <2>1, <2>2
  <1> QED BY <1>3, <1>4, TypeCorrect, HandoverIsSafe, LogsAreConfirmed, PTL
          DEF Spec, StoreSpec
=============================================================================
