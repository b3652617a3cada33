------------------------ MODULE SessionRotationProofs ------------------------
(***************************************************************************)
(* Proofs about SessionRotation, for every set of sessions and requests:   *)
(* a refresh token is exchanged at most once, a rotation is atomic, and    *)
(* only a live session is rotated.                                         *)
(*                                                                         *)
(* SingleUse is not inductive: that the session being rotated has no child *)
(* follows from its token not being consumed, which was read statements    *)
(* ago and stays true because of the row lock.  LocksProtect says so, and  *)
(* RotationIsAtomic turns "not consumed" into "no child".                  *)
(***************************************************************************)
EXTENDS SessionRotation, TLAPS

USE DEF table, writeset, request, scan, Maybe

-----------------------------------------------------------------------------
(* Type correctness.                                                       *)

\* EndRequest, the end of a request, keeps the types of all it resets.
LEMMA EndRequestTypes ==
    ASSUME TypeOK, NEW r \in Requests, EndRequest(r)
    PROVE  /\ lock' \in [Sessions -> Maybe(Requests)]
           /\ pc' \in [Requests -> Labels]
           /\ sid' \in [Requests -> Maybe(Sessions)]
           /\ \A q \in Requests : pc'[q] # "idle" => sid'[q] \in Sessions
           /\ token' \in [Requests -> TokenKinds]
           /\ want' \in [Requests -> Maybe(Sessions)]
           /\ child' \in [Requests -> Maybe(Sessions)]
           /\ found' \in [Requests -> SUBSET Sessions]
           /\ todo' \in [Requests -> SUBSET Sessions]
           /\ consuming' \in [Requests -> SUBSET Sessions]
           /\ revoking' \in [Requests -> SUBSET Sessions]
           /\ deleting' \in [Requests -> SUBSET Sessions]
  BY DEF TypeOK, EndRequest, Goto, Labels, TokenKinds

\* Every statement of a request keeps the types.
LEMMA TypeStep == TypeOK /\ [Next]_vars => TypeOK'
<1> SUFFICES ASSUME TypeOK, [Next]_vars PROVE TypeOK'
  OBVIOUS
<1>1. CASE Login
  BY <1>1 DEF TypeOK, Login, Fresh
<1>2. CASE \E r \in Requests : StartRefresh(r) \/ StartLogout(r)
  BY <1>2 DEF TypeOK, StartRefresh, StartLogout, Goto, Labels
<1>3. ASSUME NEW r \in Requests,
             SessionGone(r) \/ FindForUpdate(r) \/ ProbeChild(r)
      PROVE  TypeOK'
  BY <1>3 DEF TypeOK, SessionGone, FindForUpdate, ProbeChild, Goto, Labels, TokenKinds
<1>4. ASSUME NEW r \in Requests, SetSessionConsumed(r) \/ CreateSession(r)
      PROVE  TypeOK'
  <2>1. CASE SetSessionConsumed(r)
    <3>1. sid[r] \in Sessions
      BY <2>1 DEF TypeOK, SetSessionConsumed
    <3> QED
      BY <2>1, <3>1 DEF TypeOK, SetSessionConsumed, Goto, Labels
  <2>2. CASE CreateSession(r)
    BY <2>2 DEF TypeOK, CreateSession, Fresh, Goto, Labels
  <2> QED
    BY <1>4, <2>1, <2>2
<1>5. ASSUME NEW r \in Requests, TakeSnapshot(r) \/ ScanDone(r)
      PROVE  TypeOK'
  <2>1. Descendants(sid[r]) \subseteq Sessions
    BY DEF TypeOK, Descendants
  <2> QED
    BY <1>5, <2>1 DEF TypeOK, TakeSnapshot, ScanDone, Goto, Labels
<1>6. ASSUME NEW r \in Requests, NEW s \in Sessions,
             WaitForRow(r, s) \/ UpdateRow(r, s) \/ DeleteRow(r, s)
      PROVE  TypeOK'
  <2>1. Children(s) \subseteq Sessions
    BY DEF TypeOK, Children
  <2>2. CASE WaitForRow(r, s)
    BY <2>2 DEF TypeOK, WaitForRow
  <2>3. CASE UpdateRow(r, s)
    <3>1. /\ lock' \in [Sessions -> Maybe(Requests)]
          /\ revoking' \in [Requests -> SUBSET Sessions]
      BY <2>3 DEF TypeOK, UpdateRow
    <3> QED
      BY <2>3, <3>1 DEF TypeOK, UpdateRow, Visit
  <2>4. CASE DeleteRow(r, s)
    BY <2>4, <2>1 DEF TypeOK, DeleteRow, Visit
  <2> QED
    BY <1>6, <2>2, <2>3, <2>4
<1>7. ASSUME NEW r \in Requests, Commit(r)
      PROVE  TypeOK'
  <2>1. Created(r) \subseteq Sessions
    BY DEF TypeOK, Created
  <2>2. EndRequest(r)
    BY <1>7 DEF Commit
  <2>3. /\ rows' \subseteq Sessions /\ born' \subseteq Sessions
        /\ consumed' \subseteq Sessions /\ revoked' \subseteq Sessions
        /\ issued' \subseteq Sessions
    BY <1>7, <2>1 DEF TypeOK, Commit
  <2>4. parent' \in [Sessions -> Maybe(Sessions)]
    BY <1>7 DEF TypeOK, Commit
  <2> QED
    BY <2>2, <2>3, <2>4, EndRequestTypes DEF TypeOK
<1>8. ASSUME NEW r \in Requests, Rollback(r)
      PROVE  TypeOK'
  <2>1. EndRequest(r)
    BY <1>8 DEF Rollback
  <2> QED
    BY <1>8, <2>1, EndRequestTypes DEF TypeOK, Rollback
<1>9. CASE UNCHANGED vars
  BY <1>9 DEF TypeOK, vars
<1> QED
  BY <1>1, <1>2, <1>3, <1>4, <1>5, <1>6, <1>7, <1>8, <1>9
     DEF Next, Statement, DetectDeadlock, IdsExhausted

\* Every variable stays in its type, for any sessions and requests.
THEOREM TypeCorrect == Spec => []TypeOK
<1>1. Init => TypeOK
  BY DEF Init, TypeOK, Labels, TokenKinds
<1> QED
  BY <1>1, TypeStep, PTL DEF Spec

-----------------------------------------------------------------------------
(* The inductive invariant.                                                *)

IInv == TypeOK /\ Lineage /\ LocksProtect /\ RotationIsAtomic /\ SingleUse

\* The steps that change only what their own request has in hand.
LEMMA LocalStep ==
    ASSUME IInv, TypeOK', NEW r \in Requests,
           \/ StartRefresh(r) \/ StartLogout(r) \/ SessionGone(r)
           \/ ProbeChild(r) \/ TakeSnapshot(r) \/ ScanDone(r)
           \/ \E s \in Sessions : WaitForRow(r, s)
    PROVE  IInv'
<1>1. /\ UNCHANGED <<table, lock, writeset, issued>>
      /\ \A q \in Requests \ {r} : pc'[q] = pc[q] /\ sid'[q] = sid[q]
  BY DEF IInv, TypeOK, StartRefresh, StartLogout, SessionGone, ProbeChild,
         TakeSnapshot, ScanDone, WaitForRow, Goto
<1>2. /\ pc[r] \notin {"create", "commit"} /\ pc'[r] \notin {"create", "idle"}
      /\ pc'[r] \in {"probe", "consume"} => pc[r] = "probe" /\ sid'[r] = sid[r]
  BY DEF IInv, TypeOK, StartRefresh, StartLogout, SessionGone, ProbeChild,
         TakeSnapshot, ScanDone, WaitForRow, Goto
<1>3. ASSUME NEW q \in Requests PROVE Protected(q)'
  <2>1. Protected(q)
    BY DEF IInv, LocksProtect
  <2>2. CASE q = r
    <3>1. child[r] = None /\ consuming[r] = {}
      BY <1>2, <2>1, <2>2 DEF Protected
    <3>2. Rotating(r)' => Rotating(r) /\ sid'[r] = sid[r]
      BY <1>1, <1>2, <3>1 DEF Rotating, IInv, TypeOK, Labels
    <3> QED
      BY <1>1, <1>2, <2>1, <2>2, <3>1, <3>2 DEF Protected, Live
  <2>3. CASE q # r
    BY <1>1, <2>1, <2>3 DEF Protected, Rotating, Live
  <2> QED
    BY <2>2, <2>3
<1> QED
  BY <1>1, <1>3 DEF IInv, LocksProtect, Lineage, RotationIsAtomic, SingleUse

\* A login's id was never a row and is not drawn by an open rotation.
LEMMA LoginStep == IInv /\ TypeOK' /\ Login => IInv'
<1> SUFFICES ASSUME IInv, TypeOK', Login PROVE IInv'
  OBVIOUS
<1>1. PICK s \in Fresh : rows' = rows \union {s} /\ born' = born \union {s}
                         /\ issued' = issued \union {s}
  BY DEF Login
<1>2. UNCHANGED <<parent, consumed, revoked, lock, pc, request, scan, writeset>>
  BY DEF Login
<1>3. s \notin born /\ s \in Sessions /\ \A r \in Requests : child[r] # s
  BY DEF Fresh
<1>4. Lineage'
  BY <1>1, <1>2, <1>3 DEF IInv, Lineage
<1>5. LocksProtect'
  BY <1>1, <1>2, <1>3 DEF IInv, LocksProtect, Protected, Rotating, Live
<1>6. /\ parent[s] = None /\ s \notin consumed /\ s # None
      /\ \A c \in born : parent[c] # s
  BY <1>3, NoneAssumption DEF IInv, TypeOK, Lineage
<1>7. RotationIsAtomic'
  BY <1>1, <1>2, <1>6, NoneAssumption DEF IInv, TypeOK, RotationIsAtomic
<1>8. SingleUse'
  BY <1>1, <1>2, <1>6 DEF IInv, SingleUse
<1> QED
  BY <1>4, <1>5, <1>7, <1>8 DEF IInv

\* The locked read: what the checks found holds of a row that is now locked.
LEMMA FindStep ==
    ASSUME IInv, TypeOK', NEW r \in Requests, FindForUpdate(r)
    PROVE  IInv'
<1>1. /\ lock' = [lock EXCEPT ![sid[r]] = r] /\ sid[r] \in rows
      /\ lock[sid[r]] \in {None, r} /\ pc[r] = "find"
      /\ UNCHANGED <<table, sid, scan, writeset, issued>>
      /\ pc' = [pc EXCEPT ![r] = IF Suspicious(r) THEN "cte" ELSE "probe"]
  BY DEF FindForUpdate, LockFree, Goto
<1>2. pc'[r] = "probe" => sid[r] \in Live
  BY <1>1 DEF IInv, TypeOK, Suspicious, Live
<1>3. LocksProtect'
  <2> SUFFICES ASSUME NEW q \in Requests
               PROVE  Protected(q)'
    BY DEF LocksProtect
  <2>1. \A s \in Sessions : lock[s] = q /\ q # r => lock'[s] = q
    BY <1>1, NoneAssumption DEF IInv, TypeOK
  <2> QED
    BY <1>1, <1>2, <2>1, NoneAssumption DEF IInv, TypeOK, LocksProtect, Protected, Rotating, Live
<1> QED
  BY <1>1, <1>3 DEF IInv, Lineage, RotationIsAtomic, SingleUse

\* The two writes of a rotation, still uncommitted.
LEMMA RotateStep ==
    ASSUME IInv, TypeOK', NEW r \in Requests,
           SetSessionConsumed(r) \/ CreateSession(r)
    PROVE  IInv'
<1>1. UNCHANGED <<table, lock, request, scan, revoking, deleting, issued>>
  BY DEF SetSessionConsumed, CreateSession
<1>2. CASE SetSessionConsumed(r)
  <2>1. ASSUME NEW q \in Requests PROVE Protected(q)'
    <3>1. /\ pc[r] = "consume" /\ pc' = [pc EXCEPT ![r] = "create"]
          /\ consuming' = [consuming EXCEPT ![r] = {sid[r]}] /\ child' = child
      BY <1>2 DEF SetSessionConsumed, Goto
    <3>2. Protected(q)
      BY DEF IInv, LocksProtect
    <3>3. CASE q = r
      BY <1>1, <3>1, <3>2, <3>3 DEF IInv, TypeOK, Protected, Rotating, Live
    <3>4. CASE q # r
      BY <1>1, <3>1, <3>2, <3>4 DEF IInv, TypeOK, Protected, Rotating, Live
    <3> QED
      BY <3>3, <3>4
  <2> QED
    BY <1>1, <2>1 DEF IInv, LocksProtect, Lineage, RotationIsAtomic, SingleUse
<1>3. CASE CreateSession(r)
  <2>1. LocksProtect'
    <3>1. PICK c \in Fresh : child' = [child EXCEPT ![r] = c]
      BY <1>3 DEF CreateSession
    <3>2. /\ pc[r] = "create" /\ pc' = [pc EXCEPT ![r] = "commit"]
          /\ consuming' = consuming
      BY <1>3 DEF CreateSession, Goto
    <3>3. consuming[r] = {sid[r]} /\ child[r] = None
      BY <3>2 DEF IInv, LocksProtect, Protected
    <3>4. c \in Sessions /\ c \notin born /\ \A q \in Requests : child[q] # c
      BY DEF Fresh
    <3> QED
      BY <1>1, <3>1, <3>2, <3>3, <3>4, NoneAssumption
         DEF IInv, TypeOK, LocksProtect, Protected, Rotating, Live
  <2> QED
    BY <1>1, <2>1 DEF IInv, Lineage, RotationIsAtomic, SingleUse
<1> QED
  BY <1>2, <1>3

\* A scan locks a row before it writes it, and only a row that nobody holds.
LEMMA ScanStep ==
    ASSUME IInv, TypeOK', NEW r \in Requests, NEW s \in Sessions,
           UpdateRow(r, s) \/ DeleteRow(r, s)
    PROVE  IInv'
<1>1. /\ UNCHANGED <<table, pc, request, consuming, child, issued>>
      /\ lock[s] \in {None, r} /\ pc[r] \in {"update", "delete"}
      /\ lock' \in {lock, [lock EXCEPT ![s] = r]}
      /\ lock' # lock => s \in rows
  BY DEF UpdateRow, DeleteRow, Visit, LockFree
<1>2. \A q \in Requests \ {r} : revoking'[q] = revoking[q] /\ deleting'[q] = deleting[q]
  BY DEF IInv, TypeOK, UpdateRow, DeleteRow
<1>3. \A t \in (revoking'[r] \union deleting'[r]) \ (revoking[r] \union deleting[r]) :
          t = s /\ s \in rows /\ lock'[s] = r
  BY DEF IInv, TypeOK, UpdateRow, DeleteRow
<1>4. \A q \in Requests, t \in Sessions :
          /\ lock[t] = q => lock'[t] = q
          /\ lock'[t] = q => lock[t] = q \/ (t = s /\ q = r /\ s \in rows)
  BY <1>1, NoneAssumption DEF IInv, TypeOK
<1>5. LocksProtect'
  BY <1>1, <1>2, <1>3, <1>4 DEF IInv, TypeOK, LocksProtect, Protected, Rotating, Live
<1> QED
  BY <1>1, <1>5 DEF IInv, Lineage, RotationIsAtomic, SingleUse

-----------------------------------------------------------------------------
(* The end of a request.                                                   *)

\* The other requests keep their locks and their write sets.
LEMMA EndRequestOthers ==
    ASSUME IInv, NEW r \in Requests, EndRequest(r)
    PROVE  /\ \A q \in Requests \ {r} :
                  /\ pc'[q] = pc[q] /\ sid'[q] = sid[q] /\ child'[q] = child[q]
                  /\ consuming'[q] = consuming[q]
                  /\ revoking'[q] = revoking[q] /\ deleting'[q] = deleting[q]
                  /\ \A s \in Sessions : lock'[s] = q <=> lock[s] = q
           /\ pc'[r] = "idle" /\ child'[r] = None
           /\ consuming'[r] = {} /\ revoking'[r] = {} /\ deleting'[r] = {}
           /\ \A s \in Sessions : lock'[s] # r
  BY NoneAssumption DEF IInv, TypeOK, EndRequest, Goto

LEMMA RollbackStep ==
    ASSUME IInv, TypeOK', NEW r \in Requests, Rollback(r)
    PROVE  IInv'
<1>1. EndRequest(r) /\ UNCHANGED <<table, issued>>
  BY DEF Rollback
<1>2. LocksProtect'
  BY <1>1, EndRequestOthers, NoneAssumption
     DEF IInv, TypeOK, LocksProtect, Protected, Rotating, Live
<1> QED
  BY <1>1, <1>2 DEF IInv, Lineage, RotationIsAtomic, SingleUse

\* A commit touches no row that another request has locked.
LEMMA CommitProtects ==
    ASSUME IInv, TypeOK', NEW r \in Requests, Commit(r)
    PROVE  LocksProtect'
<1>1. EndRequest(r)
  BY DEF Commit
<1>2. /\ \A s \in consuming[r] \union revoking[r] \union deleting[r] : lock[s] = r
      /\ child[r] # None => child[r] \notin born
  <2>1. Protected(r) /\ pc[r] = "commit"
    BY DEF IInv, LocksProtect, Commit
  <2>2. consuming[r] # {} => child[r] # None /\ consuming[r] = {sid[r]}
    BY <2>1 DEF Protected
  <2>3. \A s \in consuming[r] : lock[s] = r
    BY <2>1, <2>2 DEF Protected, Rotating
  <2> QED
    BY <2>1, <2>3 DEF Protected
<1>3. SUFFICES ASSUME NEW q \in Requests PROVE Protected(q)'
  BY DEF LocksProtect
<1>4. CASE q = r
  BY <1>1, <1>4, EndRequestOthers, NoneAssumption DEF Protected, Rotating
<1>5. CASE q # r
  <2>1. \A s \in Sessions : lock[s] = q =>
            s \notin consuming[r] /\ s \notin revoking[r] /\ s \notin deleting[r]
    BY <1>2, <1>5
  <2>2. \A s \in Sessions : lock[s] = q =>
            /\ s \in rows => s \in rows'
            /\ s \in Live => s \in Live'
    BY <2>1 DEF Commit, Live
  <2>3. child[q] # None => child[q] \notin born'
    BY <1>5 DEF IInv, LocksProtect, Protected, Commit, Created
  <2>4. Protected(q)
    BY DEF IInv, LocksProtect
  <2>5. Rotating(q)' = Rotating(q)
    BY <1>1, <1>5, EndRequestOthers DEF Rotating
  <2>6. Rotating(q) => sid[q] \in Sessions
    BY <2>4 DEF IInv, TypeOK, Protected, Live
  <2>7. \A p \in Requests : child'[p] = child'[q] /\ child[q] # None => p = q
    BY <1>1, <1>5, <2>4, EndRequestOthers DEF Protected
  <2>8. \A s \in revoking[q] \union deleting[q] : s \in Sessions
    BY DEF IInv, TypeOK
  <2>9. /\ pc'[q] = pc[q] /\ sid'[q] = sid[q] /\ child'[q] = child[q]
        /\ consuming'[q] = consuming[q]
        /\ revoking'[q] = revoking[q] /\ deleting'[q] = deleting[q]
        /\ \A s \in Sessions : lock'[s] = q <=> lock[s] = q
    BY <1>1, <1>5, EndRequestOthers
  <2>10. Rotating(q)' => sid'[q] \in Live' /\ lock'[sid'[q]] = q
    BY <2>2, <2>4, <2>5, <2>6, <2>9 DEF Protected
  <2>11. \A s \in revoking'[q] \union deleting'[q] : s \in rows' /\ lock'[s] = q
    BY <2>2, <2>4, <2>8, <2>9 DEF Protected
  <2>12. \A s \in Sessions : lock'[s] = q => s \in rows' /\ pc'[q] # "idle"
    BY <2>2, <2>4, <2>9 DEF Protected
  <2> QED
    BY <2>3, <2>4, <2>7, <2>9, <2>10, <2>11, <2>12 DEF Protected
<1> QED
  BY <1>4, <1>5

\* The row that a rotation inserts is the first child of a session that was
\* not consumed, and the parent is consumed in the same step.
LEMMA CommitLineage ==
    ASSUME IInv, TypeOK', NEW r \in Requests, Commit(r)
    PROVE  Lineage' /\ RotationIsAtomic' /\ SingleUse'
<1>1. CASE child[r] = None
  <2>1. Created(r) = {} /\ consuming[r] = {}
    BY <1>1 DEF IInv, LocksProtect, Protected, Created, Commit
  <2>2. /\ rows' \subseteq rows /\ born' = born /\ consumed' = consumed
        /\ revoked' = revoked \union revoking[r] /\ issued' = issued
    BY <2>1 DEF Commit
  <2>3. parent' = parent
    BY <2>1 DEF Commit, IInv, TypeOK
  <2>4. revoking[r] \subseteq rows
    BY DEF IInv, LocksProtect, Protected
  <2> QED
    BY <2>2, <2>3, <2>4 DEF IInv, Lineage, RotationIsAtomic, SingleUse
<1>2. CASE child[r] # None
  <2> DEFINE p == sid[r]
             c == child[r]
  <2>1. /\ Created(r) = {c} /\ consuming[r] = {p}
        /\ c \in Sessions /\ c \notin born
        /\ p \in rows /\ p \notin consumed
    BY <1>2 DEF IInv, TypeOK, LocksProtect, Protected, Rotating, Live, Created
  <2>2. /\ rows' \subseteq rows \union {c} /\ born' = born \union {c}
        /\ consumed' = consumed \union {p}
        /\ revoked' = revoked \union revoking[r] /\ issued' \subseteq issued \union {c}
    BY <2>1 DEF Commit
  <2>3. parent' = [parent EXCEPT ![c] = p]
    BY <2>1 DEF Commit, IInv, TypeOK
  <2>4. revoking[r] \subseteq rows
    BY DEF IInv, LocksProtect, Protected
  <2>5. p \in born /\ p # c /\ p # None
    BY <2>1, NoneAssumption DEF IInv, TypeOK, Lineage
  <2>6. \A d \in born : parent[d] # p /\ parent[d] # c
    BY <2>1, <2>5, NoneAssumption DEF IInv, TypeOK, Lineage, RotationIsAtomic
  <2>7. \A d \in Sessions : parent'[d] = IF d = c THEN p ELSE parent[d]
    BY <2>3 DEF IInv, TypeOK
  <2>8. born \subseteq Sessions /\ consumed \subseteq born
    BY DEF IInv, TypeOK, Lineage
  <2>9. Lineage'
    BY <2>1, <2>2, <2>4, <2>5, <2>7, <2>8 DEF IInv, Lineage
  <2>10. RotationIsAtomic'
    BY <2>1, <2>2, <2>5, <2>6, <2>7, <2>8 DEF IInv, RotationIsAtomic
  <2>11. SingleUse'
    BY <2>1, <2>2, <2>6, <2>7, <2>8 DEF IInv, SingleUse
  <2> QED
    BY <2>9, <2>10, <2>11
<1> QED
  BY <1>1, <1>2

-----------------------------------------------------------------------------
(* The theorems.                                                           *)

LEMMA InductiveStep == IInv /\ [Next]_vars => IInv'
<1> SUFFICES ASSUME IInv, [Next]_vars PROVE IInv'
  OBVIOUS
<1>1. TypeOK'
  BY TypeStep DEF IInv
<1>2. CASE Login
  BY <1>1, <1>2, LoginStep
<1>3. ASSUME NEW r \in Requests, StartRefresh(r) \/ StartLogout(r)
      PROVE  IInv'
  BY <1>1, <1>3, LocalStep
<1>4. ASSUME NEW r \in Requests, Statement(r)
      PROVE  IInv'
  <2>1. CASE Commit(r)
    BY <1>1, <2>1, CommitProtects, CommitLineage DEF IInv
  <2> QED
    BY <1>1, <1>4, <2>1, LocalStep, FindStep, RotateStep, ScanStep DEF Statement
<1>5. ASSUME NEW r \in Requests, Rollback(r)
      PROVE  IInv'
  BY <1>1, <1>5, RollbackStep
<1>6. CASE UNCHANGED vars
  BY <1>1, <1>6 DEF IInv, Lineage, LocksProtect, Protected, Rotating, Live,
                    RotationIsAtomic, SingleUse, vars
<1> QED
  BY <1>2, <1>3, <1>4, <1>5, <1>6 DEF Next, DetectDeadlock, IdsExhausted

LEMMA Invariance == Spec => []IInv
<1>1. Init => IInv
  BY NoneAssumption
     DEF Init, IInv, TypeOK, Labels, TokenKinds, Lineage, LocksProtect, Protected,
         Rotating, RotationIsAtomic, SingleUse
<1> QED
  BY <1>1, InductiveStep, PTL DEF Spec

\* What a request read under its row lock stays true until it commits.
THEOREM RowLocksProtect == Spec => []LocksProtect
<1>1. IInv => LocksProtect
  BY DEF IInv
<1> QED
  BY <1>1, Invariance, PTL

\* A refresh token is exchanged at most once, whatever overlaps, fails or is
\* logged out.
THEOREM TokensAreSingleUse == Spec => []SingleUse
<1>1. IInv => SingleUse
  BY DEF IInv
<1> QED
  BY <1>1, Invariance, PTL

\* The two writes of a rotation are seen together or not at all.
THEOREM RotationsAreAtomic == Spec => []RotationIsAtomic
<1>1. IInv => RotationIsAtomic
  BY DEF IInv
<1> QED
  BY <1>1, Invariance, PTL

\* Only a session that is live when the rotation commits gets a successor.
THEOREM OnlyLiveSessionsRotate == Spec => RotatesOnlyLiveSessions
<1> DEFINE FromLive ==
        \A c \in Sessions : c \in born' \ born /\ parent'[c] # None => parent'[c] \in Live
<1>1. ASSUME IInv, [Next]_vars PROVE FromLive
  <2>1. CASE Login
    BY <1>1, <2>1 DEF Login, Fresh, IInv, Lineage
  <2>2. ASSUME NEW r \in Requests, Commit(r) PROVE FromLive
    <3>1. child[r] # None => sid[r] \in Live
      BY <1>1 DEF IInv, LocksProtect, Protected, Rotating
    <3> QED
      BY <2>2, <3>1 DEF Commit, Created
  <2>3. CASE born' = born
    BY <2>3
  <2>4. ASSUME NEW r \in Requests, Statement(r), ~Commit(r) PROVE born' = born
    BY <2>4 DEF Statement, SessionGone, FindForUpdate, ProbeChild, SetSessionConsumed,
                CreateSession, TakeSnapshot, ScanDone, WaitForRow, UpdateRow, DeleteRow
  <2> QED
    BY <1>1, <2>1, <2>2, <2>3, <2>4
       DEF Next, StartRefresh, StartLogout, Rollback, DetectDeadlock, IdsExhausted, vars
<1>2. IInv /\ [Next]_vars => [FromLive]_vars
  BY <1>1
<1> QED
  BY <1>2, Invariance, PTL DEF Spec, RotatesOnlyLiveSessions

-----------------------------------------------------------------------------
(***************************************************************************)
(* What the scans write.  A revocation has revoked, is revoking or still   *)
(* has to visit all that it found; a logout takes along, or still has to   *)
(* visit, every child of what it deletes; and nothing is written twice.    *)
(***************************************************************************)

Covered(r) ==
    /\ found[r] \subseteq born
    /\ found[r] # {} => pc[r] \in {"update", "commit"}
    /\ \A s \in found[r] \intersect rows :
          s \in revoked \/ s \in revoking[r] \/ (pc[r] = "update" /\ s \in todo[r])

Finishing(r) ==
    /\ revoking[r] # {} => pc[r] \in {"update", "commit"}
    /\ deleting[r] # {} => pc[r] \in {"delete", "commit"}
    /\ revoking[r] = {} \/ deleting[r] = {}
    /\ child[r] # None => revoking[r] = {} /\ deleting[r] = {}
    /\ revoking[r] \intersect revoked = {}
    /\ \A c \in rows : parent[c] \in deleting[r] =>
          c \in deleting[r] \/ (pc[r] = "delete" /\ c \in todo[r])

ScansCover == \A r \in Requests : Covered(r) /\ Finishing(r)

\* A statement other than COMMIT leaves the other requests what they have.
LEMMA StatementOthers ==
    ASSUME TypeOK, NEW r \in Requests,
           \/ StartRefresh(r) \/ StartLogout(r) \/ Rollback(r)
           \/ Statement(r) /\ ~Commit(r)
    PROVE  /\ UNCHANGED <<rows, born, parent, revoked>>
           /\ \A q \in Requests \ {r} :
                 /\ pc'[q] = pc[q] /\ found'[q] = found[q] /\ todo'[q] = todo[q]
                 /\ revoking'[q] = revoking[q] /\ deleting'[q] = deleting[q] /\ child'[q] = child[q]
<1>1. CASE StartRefresh(r) \/ StartLogout(r)
  BY <1>1 DEF TypeOK, StartRefresh, StartLogout, Goto
<1>2. CASE Rollback(r)
  BY <1>2 DEF TypeOK, Rollback, EndRequest, Goto
<1>3. CASE SessionGone(r) \/ FindForUpdate(r) \/ ProbeChild(r)
  BY <1>3 DEF TypeOK, SessionGone, FindForUpdate, ProbeChild, Goto
<1>4. CASE SetSessionConsumed(r) \/ CreateSession(r)
  BY <1>4 DEF TypeOK, SetSessionConsumed, CreateSession, Goto
<1>5. CASE TakeSnapshot(r) \/ ScanDone(r)
  BY <1>5 DEF TypeOK, TakeSnapshot, ScanDone, Goto
<1>6. ASSUME NEW s \in Sessions, WaitForRow(r, s) \/ UpdateRow(r, s) \/ DeleteRow(r, s)
      PROVE  /\ UNCHANGED <<rows, born, parent, revoked, pc, found, child>>
             /\ \A q \in Requests \ {r} :
                   todo'[q] = todo[q] /\ revoking'[q] = revoking[q] /\ deleting'[q] = deleting[q]
  BY <1>6 DEF TypeOK, WaitForRow, UpdateRow, DeleteRow, Visit
<1>7. CASE \E s \in Sessions : WaitForRow(r, s) \/ UpdateRow(r, s) \/ DeleteRow(r, s)
  BY <1>6, <1>7
<1> QED
  BY <1>1, <1>2, <1>3, <1>4, <1>5, <1>7 DEF Statement

\* The statements before a scan, and those that start or end one.
LEMMA BeforeScan ==
    ASSUME IInv, ScansCover, NEW r \in Requests,
           \/ StartRefresh(r) \/ StartLogout(r) \/ Rollback(r)
           \/ SessionGone(r) \/ FindForUpdate(r) \/ ProbeChild(r)
           \/ SetSessionConsumed(r) \/ CreateSession(r)
    PROVE  Covered(r)' /\ Finishing(r)'
<1>1. TypeOK /\ Covered(r) /\ Finishing(r) /\ Protected(r)
  BY DEF IInv, ScansCover, LocksProtect
<1>2. CASE StartRefresh(r) \/ StartLogout(r)
  <2>1. /\ pc[r] = "idle" /\ pc'[r] \in {"find", "delete"}
        /\ UNCHANGED <<rows, born, parent, revoked, found, revoking, deleting, child>>
    BY <1>1, <1>2 DEF TypeOK, StartRefresh, StartLogout, Goto
  <2>2. child[r] = None /\ found[r] = {} /\ revoking[r] = {} /\ deleting[r] = {}
    BY <1>1, <2>1 DEF Protected, Covered, Finishing
  <2> QED
    BY <2>1, <2>2 DEF Covered, Finishing
<1>3. CASE Rollback(r)
  <2>1. /\ found'[r] = {} /\ revoking'[r] = {} /\ deleting'[r] = {} /\ child'[r] = None
    BY <1>1, <1>3 DEF TypeOK, Rollback, EndRequest
  <2> QED
    BY <2>1 DEF Covered, Finishing
<1>4. CASE SessionGone(r) \/ FindForUpdate(r) \/ ProbeChild(r) \/ SetSessionConsumed(r)
  <2>1. /\ pc[r] \in {"find", "probe", "consume"}
        /\ UNCHANGED <<rows, born, parent, revoked, found, revoking, deleting, child>>
    BY <1>4 DEF SessionGone, FindForUpdate, ProbeChild, SetSessionConsumed
  <2>2. child[r] = None /\ found[r] = {} /\ revoking[r] = {} /\ deleting[r] = {}
    BY <1>1, <2>1 DEF Protected, Covered, Finishing
  <2> QED
    BY <2>1, <2>2 DEF Covered, Finishing
<1>5. CASE CreateSession(r)
  <2>1. pc[r] = "create" /\ UNCHANGED <<rows, born, parent, revoked, found, revoking, deleting>>
    BY <1>5 DEF CreateSession
  <2>2. found[r] = {} /\ revoking[r] = {} /\ deleting[r] = {}
    BY <1>1, <2>1 DEF Covered, Finishing
  <2> QED
    BY <2>1, <2>2 DEF Covered, Finishing
<1> QED
  BY <1>2, <1>3, <1>4, <1>5

LEMMA DuringScan ==
    ASSUME IInv, ScansCover, NEW r \in Requests,
           \/ TakeSnapshot(r) \/ ScanDone(r)
           \/ \E s \in Sessions : WaitForRow(r, s) \/ UpdateRow(r, s) \/ DeleteRow(r, s)
    PROVE  Covered(r)' /\ Finishing(r)'
<1>1. TypeOK /\ Lineage /\ Covered(r) /\ Finishing(r) /\ Protected(r)
  BY DEF IInv, ScansCover, LocksProtect
<1>2. CASE TakeSnapshot(r)
  <2>1. /\ pc[r] = "cte" /\ pc'[r] = "update"
        /\ found'[r] = Descendants(sid[r]) /\ todo'[r] = Descendants(sid[r]) \ revoked
        /\ UNCHANGED <<rows, born, parent, revoked, revoking, deleting, child>>
    BY <1>1, <1>2 DEF TypeOK, TakeSnapshot, Goto
  <2>2. revoking[r] = {} /\ deleting[r] = {}
    BY <1>1, <2>1 DEF Finishing
  <2>3. Descendants(sid[r]) \subseteq born
    BY <1>1 DEF Descendants, Lineage
  <2> QED
    BY <2>1, <2>2, <2>3 DEF Covered, Finishing
<1>3. CASE ScanDone(r)
  <2>1. /\ pc[r] \in {"update", "delete"} /\ pc'[r] = "commit" /\ todo[r] = {}
        /\ UNCHANGED <<rows, born, parent, revoked, found, revoking, deleting, child>>
    BY <1>1, <1>3 DEF TypeOK, ScanDone, Goto
  <2> QED
    BY <1>1, <2>1 DEF Covered, Finishing
<1>4. ASSUME NEW s \in Sessions, WaitForRow(r, s) PROVE Covered(r)' /\ Finishing(r)'
  BY <1>1, <1>4 DEF WaitForRow, Covered, Finishing
<1>5. ASSUME NEW s \in Sessions, UpdateRow(r, s) PROVE Covered(r)' /\ Finishing(r)'
  <2>1. /\ pc[r] = "update" /\ todo'[r] = todo[r] \ {s}
        /\ IF s \in rows /\ s \notin revoked
           THEN revoking'[r] = revoking[r] \union {s} ELSE revoking'[r] = revoking[r]
        /\ UNCHANGED <<rows, born, parent, revoked, pc, found, deleting, child>>
    BY <1>1, <1>5 DEF TypeOK, UpdateRow
  <2>2. deleting[r] = {} /\ child[r] = None
    BY <1>1, <2>1 DEF Finishing, Protected
  <2> QED
    BY <1>1, <2>1, <2>2 DEF Covered, Finishing
<1>6. ASSUME NEW s \in Sessions, DeleteRow(r, s) PROVE Covered(r)' /\ Finishing(r)'
  <2>1. /\ pc[r] = "delete"
        /\ IF s \in rows
           THEN deleting'[r] = deleting[r] \union {s} /\ todo'[r] = (todo[r] \ {s}) \union Children(s)
           ELSE deleting'[r] = deleting[r] /\ todo'[r] = todo[r] \ {s}
        /\ UNCHANGED <<rows, born, parent, revoked, pc, found, revoking, child>>
    BY <1>1, <1>6 DEF TypeOK, DeleteRow
  <2>2. revoking[r] = {} /\ child[r] = None /\ found[r] = {}
    BY <1>1, <2>1 DEF Finishing, Protected, Covered
  <2>3. \A c \in rows : parent[c] \in deleting'[r] => c \in deleting'[r] \/ c \in todo'[r]
    BY <1>1, <2>1 DEF Finishing, Children
  <2> QED
    BY <2>1, <2>2, <2>3 DEF Covered, Finishing
<1> QED
  BY <1>2, <1>3, <1>4, <1>5, <1>6

\* A commit inserts no row that was found, and no child of a row that is locked.
LEMMA CommitCovers ==
    ASSUME IInv, ScansCover, NEW r \in Requests, Commit(r)
    PROVE  ScansCover'
<1>1. TypeOK /\ Lineage /\ Protected(r) /\ EndRequest(r)
  BY DEF IInv, LocksProtect, Commit
<1>2. Covered(r)' /\ Finishing(r)'
  <2>1. found'[r] = {} /\ revoking'[r] = {} /\ deleting'[r] = {} /\ child'[r] = None
    BY <1>1 DEF TypeOK, EndRequest
  <2> QED
    BY <2>1 DEF Covered, Finishing
<1>3. ASSUME NEW q \in Requests \ {r} PROVE Covered(q)' /\ Finishing(q)'
  <2>1. /\ pc'[q] = pc[q] /\ found'[q] = found[q] /\ todo'[q] = todo[q]
        /\ revoking'[q] = revoking[q] /\ deleting'[q] = deleting[q] /\ child'[q] = child[q]
    BY <1>1, <1>3 DEF TypeOK, EndRequest, Goto
  <2>2. Covered(q) /\ Finishing(q) /\ Protected(q)
    BY DEF IInv, ScansCover, LocksProtect
  <2>3. /\ rows' = (rows \union Created(r)) \ deleting[r] /\ born' = born \union Created(r)
        /\ revoked' = revoked \union revoking[r]
        /\ parent' = [s \in Sessions |-> IF s \in Created(r) THEN sid[r] ELSE parent[s]]
    BY DEF Commit
  <2>4. \A s \in Created(r) : s \in Sessions /\ s \notin born /\ lock[sid[r]] = r
    BY <1>1 DEF Created, Protected, Rotating, TypeOK
  <2>5. \A s \in rows' : s \in rows \/ (s \in Created(r) /\ s \notin rows)
    BY <1>1, <2>3, <2>4 DEF Lineage
  <2>6. Covered(q)'
    BY <2>1, <2>2, <2>3, <2>4 DEF Covered
  <2>7. revoking[q] \intersect revoked' = {}
    <3>1. revoking[q] \intersect revoking[r] = {}
      BY <1>1, <1>3, <2>2 DEF Protected
    <3> QED
      BY <2>2, <2>3, <3>1 DEF Finishing
  <2>8. ASSUME NEW c \in rows', parent'[c] \in deleting[q]
        PROVE  c \in deleting[q] \/ (pc[q] = "delete" /\ c \in todo[q])
    <3>1. CASE c \in Created(r)
      <4>1. parent'[c] = sid[r] /\ lock[sid[r]] = r
        BY <2>3, <2>4, <3>1
      <4>2. lock[parent'[c]] = q
        BY <2>2, <2>8 DEF Protected
      <4> QED
        BY <1>3, <4>1, <4>2
    <3>2. CASE c \notin Created(r)
      <4>1. c \in rows /\ c \in Sessions
        BY <1>1, <2>5, <3>2 DEF TypeOK
      <4>2. parent'[c] = parent[c]
        BY <2>3, <3>2, <4>1
      <4> QED
        BY <2>2, <2>8, <4>1, <4>2 DEF Finishing
    <3> QED
      BY <3>1, <3>2
  <2>9. Finishing(q)'
    BY <2>1, <2>2, <2>7, <2>8 DEF Finishing
  <2> QED
    BY <2>6, <2>9
<1> QED
  BY <1>2, <1>3 DEF ScansCover

LEMMA ScansStep == IInv /\ ScansCover /\ [Next]_vars => ScansCover'
<1> SUFFICES ASSUME IInv, ScansCover, [Next]_vars PROVE ScansCover'
  OBVIOUS
<1>1. TypeOK /\ Lineage
  BY DEF IInv
<1>2. CASE Login
  <2>1. PICK s \in Fresh : rows' = rows \union {s} /\ born' = born \union {s}
    BY <1>2 DEF Login
  <2>2. UNCHANGED <<parent, revoked, pc, found, todo, revoking, deleting, child>>
    BY <1>2 DEF Login
  <2>3. s \in Sessions /\ s \notin born /\ parent[s] = None
    BY <1>1, <2>1 DEF Fresh, Lineage
  <2>4. ASSUME NEW r \in Requests PROVE Covered(r)' /\ Finishing(r)'
    <3>1. Covered(r) /\ Finishing(r) /\ None \notin deleting[r]
      BY <1>1, NoneAssumption DEF ScansCover, TypeOK
    <3>2. Covered(r)'
      BY <2>1, <2>2, <2>3, <3>1 DEF Covered
    <3>3. Finishing(r)'
      BY <2>1, <2>2, <2>3, <3>1 DEF Finishing
    <3> QED
      BY <3>2, <3>3
  <2> QED
    BY <2>4 DEF ScansCover
<1>3. ASSUME NEW r \in Requests,
             \/ StartRefresh(r) \/ StartLogout(r) \/ Rollback(r)
             \/ Statement(r) /\ ~Commit(r)
      PROVE  ScansCover'
  <2>1. Covered(r)' /\ Finishing(r)'
    BY <1>3, BeforeScan, DuringScan DEF Statement
  <2>2. ASSUME NEW q \in Requests \ {r} PROVE Covered(q)' /\ Finishing(q)'
    <3>1. /\ UNCHANGED <<rows, born, parent, revoked>>
          /\ pc'[q] = pc[q] /\ found'[q] = found[q] /\ todo'[q] = todo[q]
          /\ revoking'[q] = revoking[q] /\ deleting'[q] = deleting[q] /\ child'[q] = child[q]
      BY <1>1, <1>3, StatementOthers
    <3>2. Covered(q) /\ Finishing(q)
      BY DEF ScansCover
    <3> QED
      BY <3>1, <3>2 DEF Covered, Finishing
  <2> QED
    BY <2>1, <2>2 DEF ScansCover
<1>4. ASSUME NEW r \in Requests, Commit(r) PROVE ScansCover'
  BY <1>4, CommitCovers
<1>5. CASE UNCHANGED vars
  BY <1>5 DEF vars, ScansCover, Covered, Finishing
<1> QED
  BY <1>2, <1>3, <1>4, <1>5 DEF Next, DetectDeadlock, IdsExhausted

LEMMA ScansInvariance == Spec => [](IInv /\ ScansCover)
<1>1. Init => ScansCover
  BY DEF Init, ScansCover, Covered, Finishing
<1> QED
  BY <1>1, Invariance, ScansStep, PTL DEF Spec

\* A revocation that commits has revoked every row that it found, the rows for
\* which it had to wait included.
THEOREM RevocationsCoverSnapshots == Spec => RevocationCoversSnapshot
<1> DEFINE Covers == \A r \in Requests : Commit(r) => found[r] \intersect rows' \subseteq revoked'
<1>1. ASSUME IInv, ScansCover PROVE Covers
  <2> SUFFICES ASSUME NEW r \in Requests, Commit(r), NEW s \in found[r], s \in rows' PROVE s \in revoked'
    OBVIOUS
  <2>1. /\ pc[r] = "commit" /\ revoked' = revoked \union revoking[r]
        /\ rows' = (rows \union Created(r)) \ deleting[r]
    BY DEF Commit
  <2>2. Covered(r) /\ Protected(r)
    BY <1>1 DEF ScansCover, IInv, LocksProtect
  <2>3. s \in rows
    BY <2>1, <2>2 DEF Covered, Protected, Created
  <2> QED
    BY <2>1, <2>2, <2>3 DEF Covered
<1>2. IInv /\ ScansCover => [Covers]_vars
  BY <1>1
<1> QED
  BY <1>2, ScansInvariance, PTL DEF RevocationCoversSnapshot

-----------------------------------------------------------------------------
(***************************************************************************)
(* Refinement: what is committed is all that TokenFamily sees, so a login  *)
(* is its Issue and a COMMIT its Rotate, Revoke or Forget.                 *)
(***************************************************************************)

Statuses == {"unborn", "gone", "revoked", "used", "live"}

StatusesTell ==
    \A s \in Sessions :
        /\ statusOf[s] \in Statuses
        /\ statusOf[s] = "unborn" <=> s \notin born
        /\ statusOf[s] = "gone" <=> s \in born \ rows
        /\ statusOf[s] = "revoked" <=> s \in rows /\ s \in revoked
        /\ statusOf[s] = "used" <=> s \in rows /\ s \in consumed /\ s \notin revoked
        /\ statusOf[s] = "live" <=> s \in rows /\ s \notin consumed /\ s \notin revoked

LEMMA StatusesAreTold == IInv => StatusesTell
<1> SUFFICES ASSUME IInv, NEW s \in Sessions
             PROVE  /\ statusOf[s] \in Statuses
                    /\ statusOf[s] = "unborn" <=> s \notin born
                    /\ statusOf[s] = "gone" <=> s \in born \ rows
                    /\ statusOf[s] = "revoked" <=> s \in rows /\ s \in revoked
                    /\ statusOf[s] = "used" <=> s \in rows /\ s \in consumed /\ s \notin revoked
                    /\ statusOf[s] = "live" <=> s \in rows /\ s \notin consumed /\ s \notin revoked
  BY DEF StatusesTell
<1>1. rows \subseteq born
  BY DEF IInv, Lineage
<1>2. CASE s \notin born
  <2>1. statusOf[s] = "unborn"
    BY <1>1, <1>2 DEF statusOf, StatusOf, Live
  <2> QED
    BY <1>1, <1>2, <2>1 DEF Statuses
<1>3. CASE s \in born \ rows
  <2>1. statusOf[s] = "gone"
    BY <1>1, <1>3 DEF statusOf, StatusOf, Live
  <2> QED
    BY <1>1, <1>3, <2>1 DEF Statuses
<1>4. CASE s \in rows /\ s \in revoked
  <2>1. statusOf[s] = "revoked"
    BY <1>1, <1>4 DEF statusOf, StatusOf, Live
  <2> QED
    BY <1>1, <1>4, <2>1 DEF Statuses
<1>5. CASE s \in rows /\ s \in consumed /\ s \notin revoked
  <2>1. statusOf[s] = "used"
    BY <1>1, <1>5 DEF statusOf, StatusOf, Live
  <2> QED
    BY <1>1, <1>5, <2>1 DEF Statuses
<1>6. CASE s \in rows /\ s \notin consumed /\ s \notin revoked
  <2>1. statusOf[s] = "live"
    BY <1>1, <1>6 DEF statusOf, StatusOf, Live
  <2> QED
    BY <1>1, <1>6, <2>1 DEF Statuses
<1> QED
  BY <1>2, <1>3, <1>4, <1>5, <1>6

LEMMA StatusesAreToldNext == IInv' => StatusesTell'
  BY StatusesAreTold, PTL

LEMMA StatusesOfSessions == statusOf = [s \in Sessions |-> statusOf[s]]
  BY DEF statusOf

\* The statuses that a step leaves, session by session.
LEMMA NewStatuses ==
    ASSUME NEW f, \A s \in Sessions : statusOf'[s] = f[s], f = [s \in Sessions |-> f[s]]
    PROVE  statusOf' = f
<1>1. statusOf' = [s \in Sessions |-> statusOf'[s]]
  BY DEF statusOf
<1> QED
  BY <1>1

\* A commit that rotates.
LEMMA RotationCommits ==
    ASSUME IInv, ScansCover, IInv', NEW r \in Requests, Commit(r), child[r] # None
    PROVE  Family!FNext
<1> DEFINE s == sid[r]
           c == child[r]
<1>1. TypeOK /\ Lineage /\ Protected(r) /\ Finishing(r) /\ StatusesTell /\ StatusesTell'
  BY StatusesAreTold, StatusesAreToldNext DEF IInv, LocksProtect, ScansCover
<1>2. /\ c \in Sessions /\ c \notin born /\ Created(r) = {c}
      /\ s \in Sessions /\ s \in rows /\ s \notin consumed /\ s \notin revoked
      /\ consuming[r] = {s} /\ revoking[r] = {} /\ deleting[r] = {}
  BY <1>1 DEF TypeOK, Protected, Rotating, Live, Created, Finishing
<1>3. /\ rows' = rows \union {c} /\ born' = born \union {c}
      /\ consumed' = consumed \union {s} /\ revoked' = revoked
      /\ parent' = [parent EXCEPT ![c] = s]
  BY <1>1, <1>2 DEF Commit, TypeOK
<1>4. s # c /\ rows \subseteq born /\ consumed \subseteq born /\ revoked \subseteq born
  BY <1>1, <1>2 DEF Lineage
<1> HIDE DEF s, c
<1>5. statusOf[s] = "live" /\ statusOf[c] = "unborn"
  BY <1>1, <1>2 DEF StatusesTell
<1>6. statusOf'[s] = "used" /\ statusOf'[c] = "live"
  BY <1>1, <1>2, <1>3, <1>4 DEF StatusesTell
<1>7. ASSUME NEW t \in Sessions, t # s, t # c PROVE statusOf'[t] = statusOf[t]
  <2>1. /\ t \in rows' <=> t \in rows
        /\ t \in born' <=> t \in born
        /\ t \in consumed' <=> t \in consumed
        /\ t \in revoked' <=> t \in revoked
    BY <1>3, <1>7
  <2> QED
    BY <1>1, <2>1 DEF StatusesTell, Statuses
<1>8. statusOf' = [statusOf EXCEPT ![s] = "used", ![c] = "live"]
  <2> DEFINE f == [statusOf EXCEPT ![s] = "used", ![c] = "live"]
  <2>1. f = [t \in Sessions |-> f[t]]
    BY StatusesOfSessions
  <2>2. \A t \in Sessions : f[t] = IF t = c THEN "live" ELSE IF t = s THEN "used" ELSE statusOf[t]
    BY StatusesOfSessions
  <2>3. \A t \in Sessions : statusOf'[t] = f[t]
    BY <1>4, <1>6, <1>7, <2>2
  <2> HIDE DEF f
  <2>4. statusOf' = f
    BY <2>1, <2>3, NewStatuses
  <2> QED
    BY <2>4 DEF f
<1>9. Family!Rotate(s, c)
  BY <1>3, <1>5, <1>8 DEF Family!Rotate
<1> QED
  BY <1>2, <1>9 DEF Family!FNext

\* A commit that revokes or deletes, or has written nothing.
LEMMA ScanCommits ==
    ASSUME IInv, ScansCover, IInv', NEW r \in Requests, Commit(r), child[r] = None
    PROVE  Family!FNext
<1>1. TypeOK /\ Lineage /\ Protected(r) /\ Finishing(r) /\ StatusesTell /\ StatusesTell' /\ pc[r] = "commit"
  BY StatusesAreTold, StatusesAreToldNext DEF IInv, LocksProtect, ScansCover, Commit
<1>2. Created(r) = {} /\ consuming[r] = {}
  BY <1>1 DEF Protected, Created
<1>3. /\ rows' = rows \ deleting[r] /\ born' = born /\ consumed' = consumed
      /\ revoked' = revoked \union revoking[r] /\ parent' = parent
  BY <1>1, <1>2 DEF Commit, TypeOK
<1>4. revoking[r] \subseteq rows /\ deleting[r] \subseteq rows /\ rows \subseteq born /\ rows \subseteq Sessions
  BY <1>1 DEF Protected, Lineage, TypeOK
<1>5. CASE deleting[r] = {}
  <2> DEFINE S == revoking[r]
             f == [s \in Sessions |-> IF s \in S THEN "revoked" ELSE statusOf[s]]
  <2>1. S \subseteq Sessions /\ S \intersect revoked = {}
    BY <1>1, <1>4 DEF Finishing
  <2>2. ASSUME NEW s \in S PROVE statusOf[s] \in {"live", "used"}
    BY <1>1, <1>4, <2>1 DEF StatusesTell
  <2>3. ASSUME NEW s \in Sessions PROVE statusOf'[s] = f[s]
    <3>1. CASE s \in S
      BY <1>1, <1>3, <1>4, <1>5, <3>1 DEF StatusesTell
    <3>2. CASE s \notin S
      <4>1. /\ s \in rows' <=> s \in rows
            /\ s \in born' <=> s \in born
            /\ s \in consumed' <=> s \in consumed
            /\ s \in revoked' <=> s \in revoked
        BY <1>3, <1>5, <3>2
      <4>2. statusOf'[s] = statusOf[s]
        BY <1>1, <4>1 DEF StatusesTell, Statuses
      <4> QED
        BY <3>2, <4>2
    <3> QED
      BY <3>1, <3>2
  <2>4. f = [s \in Sessions |-> f[s]]
    OBVIOUS
  <2>5. statusOf' = f
    BY <2>3, <2>4, NewStatuses
  <2>6. Family!Revoke(S)
    BY <1>3, <2>2, <2>5 DEF Family!Revoke
  <2> QED
    BY <2>1, <2>6 DEF Family!FNext
<1>6. CASE deleting[r] # {}
  <2> DEFINE S == deleting[r]
             f == [s \in Sessions |-> IF s \in S THEN "gone" ELSE statusOf[s]]
  <2>1. S \subseteq Sessions /\ revoking[r] = {}
    BY <1>1, <1>4, <1>6 DEF Finishing
  <2>2. ASSUME NEW s \in S PROVE statusOf[s] \in {"live", "used", "revoked"}
    BY <1>1, <1>4 DEF StatusesTell
  <2>3. ASSUME NEW c \in Sessions, parent[c] \in S PROVE c \in S \/ statusOf[c] = "gone"
    <3>1. c \in born
      BY <1>1, <2>1, <2>3, NoneAssumption DEF Lineage
    <3>2. c \in rows => c \in S
      BY <1>1, <2>3 DEF Finishing
    <3> QED
      BY <1>1, <3>1, <3>2 DEF StatusesTell
  <2>4. ASSUME NEW s \in Sessions PROVE statusOf'[s] = f[s]
    <3>1. CASE s \in S
      BY <1>1, <1>3, <1>4, <3>1 DEF StatusesTell
    <3>2. CASE s \notin S
      <4>1. /\ s \in rows' <=> s \in rows
            /\ s \in born' <=> s \in born
            /\ s \in consumed' <=> s \in consumed
            /\ s \in revoked' <=> s \in revoked
        BY <1>3, <2>1, <3>2
      <4>2. statusOf'[s] = statusOf[s]
        BY <1>1, <4>1 DEF StatusesTell, Statuses
      <4> QED
        BY <3>2, <4>2
    <3> QED
      BY <3>1, <3>2
  <2>5. f = [s \in Sessions |-> f[s]]
    OBVIOUS
  <2>6. statusOf' = f
    BY <2>4, <2>5, NewStatuses
  <2>7. Family!Forget(S)
    BY <1>3, <2>2, <2>3, <2>6 DEF Family!Forget
  <2> QED
    BY <2>1, <2>7 DEF Family!FNext
<1> QED
  BY <1>5, <1>6

LEMMA FamilyStep ==
    ASSUME IInv, ScansCover, IInv', [Next]_vars
    PROVE  [Family!FNext]_(Family!fvars)
<1>1. TypeOK /\ Lineage /\ StatusesTell /\ StatusesTell'
  BY StatusesAreTold, StatusesAreToldNext DEF IInv
<1>2. CASE Login
  <2>1. PICK s \in Fresh : rows' = rows \union {s} /\ born' = born \union {s}
    BY <1>2 DEF Login
  <2>2. UNCHANGED <<parent, consumed, revoked>>
    BY <1>2 DEF Login
  <2>3. s \in Sessions /\ s \notin born /\ s \notin consumed /\ s \notin revoked
    BY <1>1, <2>1 DEF Fresh, Lineage
  <2>4. statusOf[s] = "unborn" /\ statusOf'[s] = "live"
    BY <1>1, <2>1, <2>2, <2>3 DEF StatusesTell
  <2>5. ASSUME NEW t \in Sessions, t # s PROVE statusOf'[t] = statusOf[t]
    <3>1. (t \in rows' <=> t \in rows) /\ (t \in born' <=> t \in born)
      BY <2>1, <2>5
    <3> QED
      BY <1>1, <2>2, <3>1 DEF StatusesTell, Statuses
  <2>6. statusOf' = [statusOf EXCEPT ![s] = "live"]
    <3> DEFINE f == [statusOf EXCEPT ![s] = "live"]
    <3>1. f = [t \in Sessions |-> f[t]] /\ \A t \in Sessions : f[t] = IF t = s THEN "live" ELSE statusOf[t]
      BY StatusesOfSessions
    <3>2. \A t \in Sessions : statusOf'[t] = f[t]
      BY <2>4, <2>5, <3>1
    <3> HIDE DEF f
    <3>3. statusOf' = f
      BY <3>1, <3>2, NewStatuses
    <3> QED
      BY <3>3 DEF f
  <2>7. Family!Issue(s)
    BY <2>2, <2>4, <2>6 DEF Family!Issue
  <2> QED
    BY <2>3, <2>7 DEF Family!FNext
<1>3. ASSUME NEW r \in Requests, Commit(r) PROVE Family!FNext
  BY <1>3, RotationCommits, ScanCommits
<1>4. CASE UNCHANGED <<rows, born, parent, consumed, revoked>>
  BY <1>4 DEF statusOf, StatusOf, Live, Family!fvars
<1>5. ASSUME NEW r \in Requests,
             \/ StartRefresh(r) \/ StartLogout(r) \/ Rollback(r)
             \/ Statement(r) /\ ~Commit(r)
      PROVE  UNCHANGED <<rows, born, parent, consumed, revoked>>
  BY <1>5 DEF Statement, StartRefresh, StartLogout, Rollback, SessionGone, FindForUpdate, ProbeChild,
              SetSessionConsumed, CreateSession, TakeSnapshot, ScanDone, WaitForRow, UpdateRow, DeleteRow
<1>6. CASE UNCHANGED vars
  BY <1>4, <1>6 DEF vars
<1> QED
  BY <1>2, <1>3, <1>4, <1>5, <1>6 DEF Next, DetectDeadlock, IdsExhausted

\* For any sessions and requests, the rotation protocol implements TokenFamily: all
\* that is seen of a request is one atomic step when it commits.
THEOREM RotationImplementsTokenFamily == Spec => ImplementsTokenFamily
<1>1. Init => Family!FInit
  BY DEF Init, Family!FInit, statusOf, StatusOf, Live
<1> QED
  BY <1>1, ScansInvariance, FamilyStep, PTL DEF Spec, ImplementsTokenFamily, Family!FSpec
=============================================================================
