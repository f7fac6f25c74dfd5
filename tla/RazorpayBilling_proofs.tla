------------------------ MODULE RazorpayBilling_proofs ------------------------
(* Proofs about RazorpayBilling, for every number of users, mandates and     *)
(* sessions, every set of Razorpay events and every Hub fault.               *)
EXTENDS RazorpayBilling, TLAPS

HookPlaces == {"hook.commit", "hook.verify", "hook.insert", "hook.report", "hook.notify"}
Owned(m, u) == owner[m] = u /\ life[m] # "none"

\* What a running session remembers still refers to things that exist: its user
\* has the row it loaded, the mandates it names are that user's, and the webhook
\* it handles was raised.
SessionLink(p) ==
  /\ sess[p].at # "idle" => sess[p].user \in Users
  /\ sess[p].snap # NoRow =>
       /\ sess[p].user \in Users /\ row[sess[p].user] # NoRow
       /\ sess[p].snap.rzp # NoMandate => Owned(sess[p].snap.rzp, sess[p].user)
  /\ sess[p].at \in {"subscribe.cancelOld", "cancel.hub"} =>
       sess[p].snap # NoRow /\ sess[p].snap.rzp # NoMandate
  /\ sess[p].at \in {"cancel.commit", "sync.load", "sync.report", "hook.commit"} =>
       sess[p].snap # NoRow
  /\ sess[p].at = "subscribe.commit" =>
       /\ sess[p].m \in Mandates /\ Owned(sess[p].m, sess[p].user)
       /\ sess[p].snap # NoRow => sess[p].snap.rzp # sess[p].m
  /\ sess[p].at \in HookPlaces =>
       /\ sess[p].ev \in sent /\ row[sess[p].user] # NoRow
       /\ Owned(sess[p].ev.m, sess[p].user)
       /\ sess[p].snap # NoRow
SessionLinks == \A p \in Sessions : SessionLink(p)

\* A row names a mandate of its own user.
RowLinks ==
  \A u \in Users : row[u] # NoRow /\ row[u].rzp # NoMandate => Owned(row[u].rzp, u)

\* A payment was recorded for a user who has a row.
HistLinks ==
  \A m \in Mandates, k \in PayKinds :
    hist[<<m, k>>] > 0 => owner[m] \in Users /\ row[owner[m]] # NoRow /\ life[m] # "none"

Links == TypeOK /\ SessionLinks /\ RowLinks /\ HistLinks


-----------------------------------------------------------------------------
(* Types *)

\* Writing the changed attributes of a row over the stored row gives a row.
LEMMA FlushType ==
  ASSUME NEW cur \in Row, NEW loaded \in Row, NEW new \in Row
  PROVE  Flush(cur, loaded, new) \in Row
  BY DEF Flush, Net, Row

\* A session record stays one when its place, row, user or event is replaced.
LEMMA SessionFields ==
  ASSUME NEW s \in SessionType
  PROVE  /\ \A place \in Places : [s EXCEPT !.at = place] \in SessionType
         /\ \A place \in Places, m \in Mandates :
              [s EXCEPT !.at = place, !.m = m] \in SessionType
         /\ \A place \in Places, r \in Row :
              [s EXCEPT !.at = place, !.snap = r] \in SessionType
         /\ \A place \in Places, u \in Users, r \in Row \union {NoRow} :
              [s EXCEPT !.at = place, !.user = u, !.snap = r] \in SessionType
         /\ \A place \in Places, u \in Users :
              [s EXCEPT !.at = place, !.user = u] \in SessionType
  BY DEF SessionType

\* An idle session is well formed.
LEMMA IdleType == Idle \in SessionType
  BY DEF Idle, SessionType, Places

\* Sending a session to another place keeps its type.
LEMMA GotoType ==
  ASSUME TypeOK, NEW p \in Sessions, NEW place \in Places, Goto(p, place)
  PROVE  sess' \in [Sessions -> SessionType]
  <1>1. sess' = [sess EXCEPT ![p] = [sess[p] EXCEPT !.at = place]]
    BY DEF Goto
  <1>2. [sess[p] EXCEPT !.at = place] \in SessionType
    BY SessionFields DEF TypeOK
  <1> QED
    BY <1>1, <1>2 DEF TypeOK

\* So does ending its request.
LEMMA FinishType ==
  ASSUME TypeOK, NEW p \in Sessions, Finish(p)
  PROVE  sess' \in [Sessions -> SessionType]
  BY IdleType DEF TypeOK, Finish

\* So does any new record of a session.
LEMMA RecordType ==
  ASSUME TypeOK, NEW p \in Sessions, NEW s \in SessionType, sess' = [sess EXCEPT ![p] = s]
  PROVE  sess' \in [Sessions -> SessionType]
  BY DEF TypeOK

\* A request that starts with the row of its user.
LEMMA LoadType ==
  ASSUME TypeOK, NEW p \in Sessions, NEW u \in Users, NEW place \in Places,
         sess' = [sess EXCEPT ![p] = [Idle EXCEPT !.at = place, !.user = u, !.snap = row[u]]]
  PROVE  sess' \in [Sessions -> SessionType]
  <1>1. [Idle EXCEPT !.at = place, !.user = u, !.snap = row[u]] \in SessionType
    BY IdleType, SessionFields DEF TypeOK
  <1> QED
    BY <1>1, RecordType

\* A session that remembers a loaded row: the user still has a row.
LEMMA LoadedTypes ==
  ASSUME Links, NEW p \in Sessions, sess[p].snap # NoRow
  PROVE  /\ sess[p].user \in Users /\ sess[p].snap \in Row
         /\ row[sess[p].user] \in Row
  BY DEF Links, TypeOK, SessionLinks, SessionLink, SessionType

\* A session that handles a webhook.
LEMMA HookTypes ==
  ASSUME Links, NEW p \in Sessions, sess[p].at \in HookPlaces
  PROVE  /\ sess[p].user \in Users /\ row[sess[p].user] \in Row
         /\ sess[p].ev \in sent /\ sess[p].ev \in Event
         /\ sess[p].ev.m \in Mandates /\ sess[p].ev.pay \in PayKinds
         /\ Owned(sess[p].ev.m, sess[p].user)
         /\ sess[p].at = "hook.commit" => sess[p].snap \in Row
  <1>1. sess[p].at # "idle" /\ sess[p].ev \in sent
    BY DEF Links, SessionLinks, SessionLink, HookPlaces
  <1>2. sess[p].ev \in Event
    BY <1>1 DEF Links, TypeOK
  <1>3. sess[p].ev.m \in Mandates /\ sess[p].ev.pay \in PayKinds
    BY <1>2 DEF Event
  <1>4. sess[p].at = "hook.commit" => sess[p].snap \in Row
    BY LoadedTypes DEF Links, SessionLinks, SessionLink
  <1> QED
    BY <1>1, <1>2, <1>3, <1>4 DEF Links, TypeOK, SessionLinks, SessionLink

\* A session that flushes leaves every row well typed.
LEMMA FlushRowType ==
  ASSUME Links, NEW p \in Sessions, NEW new \in Row, sess[p].snap # NoRow,
         FlushRow(p, new)
  PROVE  row' \in [Users -> Row \union {NoRow}]
  BY FlushType, LoadedTypes DEF Links, TypeOK, FlushRow

\* Stamping hub_synced_at leaves every row well typed.
LEMMA ReportType ==
  ASSUME Links, NEW p \in Sessions, NEW key \in HubKeys,
         NEW status \in {"trial", "success", "refunded"},
         sess[p].user \in Users, row[sess[p].user] \in Row,
         ReportAccepted(p, key, status) \/ ReportFailed(p, key, status)
  PROVE  /\ row' \in [Users -> Row \union {NoRow}]
         /\ hubTx' \in [HubKeys -> {"none", "trial", "success", "refunded"}]
  <1>1. [row[sess[p].user] EXCEPT !.synced = TRUE] \in Row
    BY DEF Row
  <1>2. CASE ReportAccepted(p, key, status)
    BY <1>1, <1>2 DEF ReportAccepted, Links, TypeOK
  <1>3. CASE ReportFailed(p, key, status)
    BY <1>3 DEF ReportFailed, Links, TypeOK
  <1> QED
    BY <1>2, <1>3

\* Types hold in the initial state.
THEOREM TypeInit == Init => TypeOK
  BY IdleType, BillingAssumption DEF Init, TypeOK, HubKeys, LifeStates

\* Every step keeps types: one step of the proof per action.
THEOREM TypeStep ==
  ASSUME Links, [Next]_vars
  PROVE  TypeOK'
  <1> USE BillingAssumption DEF Links, dbVars, rzpVars
  <1>1. ASSUME NEW p \in Sessions, NEW u \in Users, SubscribeLoad(p, u) PROVE TypeOK'
    <2>1. \E place \in Places :
            sess' = [sess EXCEPT ![p] = [Idle EXCEPT !.at = place, !.user = u, !.snap = row[u]]]
      BY <1>1 DEF SubscribeLoad, Places
    <2>2. sess' \in [Sessions -> SessionType]
      BY <2>1, LoadType
    <2> QED
      BY <1>1, <2>2 DEF SubscribeLoad, TypeOK
  <1>2. ASSUME NEW p \in Sessions, SubscribeCancelOld(p) PROVE TypeOK'
    <2>1. sess' \in [Sessions -> SessionType]
      BY <1>2, GotoType DEF SubscribeCancelOld, Places
    <2>2. HubCancels(sess[p].snap.rzp) \/ UNCHANGED <<life, sent>>
      BY <1>2 DEF SubscribeCancelOld, HubRefuses
    <2>3. sess[p].snap.rzp \in Mandates
      BY <1>2, LoadedTypes DEF SubscribeCancelOld, SessionLinks, SessionLink, Row
    <2>4. life' \in [Mandates -> LifeStates] /\ sent' \subseteq Event
      BY <2>2, <2>3 DEF HubCancels, TypeOK, LifeStates, Event, Kinds, PayKinds
    <2> QED
      BY <1>2, <2>1, <2>4 DEF SubscribeCancelOld, TypeOK
  <1>3. ASSUME NEW p \in Sessions, SubscribeCreate(p) PROVE TypeOK'
    <2>1. PICK m \in Mandates : HubCreates(m, sess[p].user)
                                 /\ \/ sess' = [sess EXCEPT ![p].at = "subscribe.commit", ![p].m = m]
                                    \/ Finish(p)
      BY <1>3 DEF SubscribeCreate
    <2>2. sess' \in [Sessions -> SessionType]
      <3>1. CASE sess' = [sess EXCEPT ![p].at = "subscribe.commit", ![p].m = m]
        <4>1. [sess[p] EXCEPT !.at = "subscribe.commit", !.m = m] \in SessionType
          BY SessionFields DEF TypeOK, Places
        <4> QED
          BY <3>1, <4>1 DEF TypeOK
      <3> QED
        BY <2>1, <3>1, FinishType
    <2>3. sess[p].user \in Users
      BY <1>3 DEF SubscribeCreate, SessionLinks, SessionLink
    <2> QED
      BY <1>3, <2>1, <2>2, <2>3 DEF SubscribeCreate, HubCreates, TypeOK, LifeStates
  <1>4. ASSUME NEW p \in Sessions, SubscribeRefused(p) PROVE TypeOK'
    BY <1>4, GotoType, FinishType, IdleType DEF SubscribeRefused, TypeOK, Places
  <1>5. ASSUME NEW p \in Sessions, SubscribeCommit(p) PROVE TypeOK'
    <2>1. sess[p].user \in Users /\ sess[p].m \in Mandates /\ sess[p] \in SessionType
      BY <1>5 DEF SubscribeCommit, SessionLinks, SessionLink, TypeOK
    <2>2. Subscribed(p) \in Row
      BY <2>1 DEF Subscribed, Row, Plans, Statuses, SessionType
    <2>3. row' \in [Users -> Row \union {NoRow}] /\ told' \subseteq Mandates
      BY <1>5, <2>1, <2>2, FlushRowType DEF SubscribeCommit, TypeOK
    <2> QED
      BY <1>5, <2>3, FinishType DEF SubscribeCommit, TypeOK
  <1>6. ASSUME NEW p \in Sessions, NEW u \in Users, CancelLoad(p, u) PROVE TypeOK'
    <2>1. \E place \in Places :
            sess' = [sess EXCEPT ![p] = [Idle EXCEPT !.at = place, !.user = u, !.snap = row[u]]]
      BY <1>6 DEF CancelLoad, Places
    <2>2. sess' \in [Sessions -> SessionType]
      BY <2>1, LoadType
    <2> QED
      BY <1>6, <2>2 DEF CancelLoad, TypeOK
  <1>7. ASSUME NEW p \in Sessions, CancelHub(p) PROVE TypeOK'
    <2>1. sess' \in [Sessions -> SessionType]
      BY <1>7, GotoType, FinishType DEF CancelHub, Places
    <2>2. HubCancels(sess[p].snap.rzp) \/ UNCHANGED <<life, sent>>
      BY <1>7 DEF CancelHub, HubTakesCancel
    <2>3. sess[p].snap.rzp \in Mandates
      BY <1>7, LoadedTypes DEF CancelHub, SessionLinks, SessionLink, Row
    <2>4. life' \in [Mandates -> LifeStates] /\ sent' \subseteq Event
      BY <2>2, <2>3 DEF HubCancels, TypeOK, LifeStates, Event, Kinds, PayKinds
    <2> QED
      BY <1>7, <2>1, <2>4 DEF CancelHub, TypeOK
  <1>8. ASSUME NEW p \in Sessions, CancelCommit(p) PROVE TypeOK'
    <2>1. sess[p].snap # NoRow /\ sess[p].snap \in Row
      BY <1>8, LoadedTypes DEF CancelCommit, SessionLinks, SessionLink
    <2>2. row' \in [Users -> Row \union {NoRow}]
      <3> DEFINE atEnd == AtCycleEnd(sess[p].snap)
                 new   == [sess[p].snap EXCEPT !.cancelAtEnd = atEnd,
                             !.status = IF atEnd THEN @ ELSE "canceled"]
      <3>1. atEnd \in BOOLEAN
        BY DEF AtCycleEnd
      <3>2. new \in Row
        BY <2>1, <3>1 DEF Row, Statuses
      <3> QED
        BY <1>8, <2>1, <3>2, FlushRowType DEF CancelCommit
    <2> QED
      BY <1>8, <2>2, FinishType DEF CancelCommit, TypeOK
  <1>9. ASSUME NEW p \in Sessions, NEW u \in Users, GrantLoad(p, u) PROVE TypeOK'
    <2>1. \E place \in Places :
            sess' = [sess EXCEPT ![p] = [Idle EXCEPT !.at = place, !.user = u, !.snap = row[u]]]
      BY <1>9 DEF GrantLoad, Places
    <2>2. sess' \in [Sessions -> SessionType]
      BY <2>1, LoadType
    <2> QED
      BY <1>9, <2>2 DEF GrantLoad, TypeOK
  <1>10. ASSUME NEW p \in Sessions, GrantCommit(p) PROVE TypeOK'
    <2>1. sess[p].user \in Users
      BY <1>10 DEF GrantCommit, SessionLinks, SessionLink
    <2>2. PICK via \in Grants, plan \in Plans : GrantWrite(p, via, plan)
      BY <1>10 DEF GrantCommit
    <2>3. CASE sess[p].snap # NoRow
      <3> DEFINE new == [sess[p].snap EXCEPT !.plan = plan, !.status = "active",
                           !.cancelAtEnd = IF via = "checkout" THEN FALSE ELSE @]
      <3> DEFINE ends == IF via = "checkout" THEN FALSE ELSE sess[p].snap.cancelAtEnd
      <3>0. sess[p].snap \in Row /\ ends \in BOOLEAN
        BY <2>3, LoadedTypes DEF Row
      <3>1. new \in Row
        <4>1. new = [sess[p].snap EXCEPT !.plan = plan, !.status = "active", !.cancelAtEnd = ends]
          OBVIOUS
        <4> HIDE DEF new, ends
        <4> QED
          BY <4>1, <3>0 DEF Row, Statuses
      <3>2. row' \in [Users -> Row \union {NoRow}]
        BY <2>2, <2>3, <3>1, FlushRowType DEF GrantWrite
      <3> QED
        BY <1>10, <2>1, <2>2, <2>3, <3>2, FinishType DEF GrantCommit, GrantWrite, TypeOK
    <2>4. CASE sess[p].snap = NoRow
      <3> DEFINE new == [plan |-> plan, status |-> "active", rzp |-> NoMandate,
                         cancelAtEnd |-> FALSE, synced |-> FALSE]
      <3>0. new \in Row
        BY DEF Row, Statuses
      <3>1. row' \in [Users -> Row \union {NoRow}] /\ comped' \subseteq Users
        BY <2>1, <2>2, <2>4, <3>0 DEF GrantWrite, TypeOK
      <3> QED
        BY <1>10, <3>1, FinishType DEF GrantCommit, TypeOK
    <2> QED
      BY <2>3, <2>4
  <1>11. ASSUME NEW p \in Sessions, NEW u \in Users, SyncSelect(p, u) PROVE TypeOK'
    <2>1. \E place \in Places :
            sess' = [sess EXCEPT ![p] = [Idle EXCEPT !.at = place, !.user = u, !.snap = row[u]]]
      BY <1>11 DEF SyncSelect, Places
    <2>2. sess' \in [Sessions -> SessionType]
      BY <2>1, LoadType
    <2> QED
      BY <1>11, <2>2 DEF SyncSelect, TypeOK
  <1>12. ASSUME NEW p \in Sessions, SyncLoad(p) PROVE TypeOK'
    <2>1. sess[p].snap \in Row /\ row[sess[p].user] \in Row
      BY <1>12, LoadedTypes DEF SyncLoad, SessionLinks, SessionLink
    <2>2. PICK loaded \in Row :
            Finish(p) \/ sess' = [sess EXCEPT ![p].at = "sync.report", ![p].snap = loaded]
      BY <1>12, <2>1 DEF SyncLoad
    <2>3. [sess[p] EXCEPT !.at = "sync.report", !.snap = loaded] \in SessionType
      BY SessionFields DEF TypeOK, Places
    <2>4. sess' \in [Sessions -> SessionType]
      <3>1. sess' = [sess EXCEPT ![p] = [sess[p] EXCEPT !.at = "sync.report", !.snap = loaded]]
              => sess' \in [Sessions -> SessionType]
        BY <2>3, RecordType
      <3> QED
        BY <2>2, <3>1, FinishType
    <2> QED
      BY <1>12, <2>4 DEF SyncLoad, TypeOK
  <1>13. ASSUME NEW p \in Sessions, SyncAccepted(p) PROVE TypeOK'
    <2>1. sess[p].snap # NoRow
      BY <1>13 DEF SyncAccepted, SessionLinks, SessionLink
    <2>2. SyncKey(sess[p]) \in HubKeys
      BY <2>1, LoadedTypes DEF SyncKey, HubKeys, Row
    <2>3. SyncStatus(sess[p]) \in {"trial", "success"}
      BY DEF SyncStatus
    <2> QED
      BY <1>13, <2>1, <2>2, <2>3, LoadedTypes, ReportType, FinishType DEF SyncAccepted, TypeOK
  <1>14. ASSUME NEW p \in Sessions, SyncFailed(p) PROVE TypeOK'
    <2>1. sess[p].snap # NoRow
      BY <1>14 DEF SyncFailed, SessionLinks, SessionLink
    <2>2. SyncKey(sess[p]) \in HubKeys
      BY <2>1, LoadedTypes DEF SyncKey, HubKeys, Row
    <2>3. SyncStatus(sess[p]) \in {"trial", "success"}
      BY DEF SyncStatus
    <2> QED
      BY <1>14, <2>1, <2>2, <2>3, LoadedTypes, ReportType, FinishType DEF SyncFailed, TypeOK
  <1>15. ASSUME NEW p \in Sessions, NEW e \in sent, HookReceive(p, e) PROVE TypeOK'
    <2>1. e \in Event
      BY DEF TypeOK
    <2>2. sess' \in [Sessions -> SessionType]
      BY <1>15, <2>1 DEF HookReceive, AlreadyRecorded, TypeOK, SessionType, Places
    <2> QED
      BY <1>15, <2>2 DEF HookReceive, TypeOK
  <1>16. ASSUME NEW p \in Sessions, HookStatus(p) PROVE TypeOK'
    <2>1. sess[p].snap # NoRow /\ sess[p].snap \in Row
      BY <1>16, LoadedTypes DEF HookStatus, SessionLinks, SessionLink
    <2>2. row' \in [Users -> Row \union {NoRow}]
      BY <1>16, <2>1, FlushRowType DEF HookStatus, Row, StatusFor, Statuses, Plans
    <2>3. sess' \in [Sessions -> SessionType]
      BY <1>16, GotoType, FinishType DEF HookStatus, Places
    <2> QED
      BY <1>16, <2>2, <2>3 DEF HookStatus, TypeOK
  <1>17. ASSUME NEW p \in Sessions, HookCharged(p) PROVE TypeOK'
    <2>1. sess[p].snap # NoRow /\ sess[p].snap \in Row
      BY <1>17, LoadedTypes DEF HookCharged, SessionLinks, SessionLink
    <2>2. row' \in [Users -> Row \union {NoRow}]
      BY <1>17, <2>1, FlushRowType DEF HookCharged, Row, StatusFor, Statuses, Plans
    <2>3. sess' \in [Sessions -> SessionType]
      BY <1>17, GotoType, FinishType DEF HookCharged, Places
    <2>4. hist' \in [Mandates \X PayKinds -> 0..MaxRows]
      BY <1>17, HookTypes DEF HookCharged, AddPaymentRow, PayRow, TypeOK, HookPlaces
    <2> QED
      BY <1>17, <2>2, <2>3, <2>4 DEF HookCharged, TypeOK
  <1>18. ASSUME NEW p \in Sessions, HookDowngrade(p) PROVE TypeOK'
    <2>1. sess[p].snap # NoRow /\ sess[p].snap \in Row
      BY <1>18, LoadedTypes DEF HookDowngrade, SessionLinks, SessionLink
    <2> DEFINE new == [sess[p].snap EXCEPT !.status = StatusFor(sess[p].ev.kind), !.plan = "Free"]
    <2>2. row' \in [Users -> Row \union {NoRow}]
      <3>1. StatusFor(sess[p].ev.kind) \in Statuses /\ "Free" \in Plans
        BY DEF StatusFor, Statuses, Plans
      <3>2. new \in Row
        BY <2>1, <3>1 DEF Row
      <3> QED
        BY <1>18, <2>1, <3>2, FlushRowType DEF HookDowngrade
    <2>3. sess' \in [Sessions -> SessionType]
      BY <1>18, GotoType DEF HookDowngrade, Places
    <2>4. closed' \subseteq Mandates
      BY <1>18, HookTypes DEF HookDowngrade, TypeOK, HookPlaces
    <2> QED
      BY <1>18, <2>2, <2>3, <2>4 DEF HookDowngrade, TypeOK
  <1>19. ASSUME NEW p \in Sessions, HookRefund(p) PROVE TypeOK'
    BY <1>19, GotoType, FinishType, IdleType, HookTypes DEF HookRefund, TypeOK, Places, PayRow, HookPlaces
  <1>20. ASSUME NEW p \in Sessions, HookVerify(p) PROVE TypeOK'
    BY <1>20, GotoType, FinishType, IdleType DEF HookVerify, TypeOK, Places
  <1>21. ASSUME NEW p \in Sessions, HookInsert(p) PROVE TypeOK'
    <2>1. hist' \in [Mandates \X PayKinds -> 0..MaxRows]
      BY <1>21, HookTypes DEF HookInsert, AddPaymentRow, PayRow, TypeOK, HookPlaces
    <2>2. sess' \in [Sessions -> SessionType]
      BY <1>21, GotoType DEF HookInsert, Places
    <2> QED
      BY <1>21, <2>1, <2>2 DEF HookInsert, TypeOK
  <1>22. ASSUME NEW p \in Sessions, HookReport(p) PROVE TypeOK'
    <2> DEFINE e == sess[p].ev
    <2>1. ReportKey(e) \in HubKeys
      BY <1>22, HookTypes DEF HookReport, ReportKey, HubKeys, HookPlaces, PayKinds
    <2>2. ReportStatus(e) \in {"trial", "success", "refunded"}
      BY DEF ReportStatus
    <2>3. /\ row' \in [Users -> Row \union {NoRow}]
          /\ hubTx' \in [HubKeys -> {"none", "trial", "success", "refunded"}]
      BY <1>22, <2>1, <2>2, HookTypes, ReportType DEF HookReport, HookPlaces
    <2>4. sess' \in [Sessions -> SessionType]
      BY <1>22, GotoType, FinishType DEF HookReport, Places
    <2> QED
      BY <1>22, <2>3, <2>4 DEF HookReport, TypeOK
  <1>23. ASSUME NEW p \in Sessions, HookNotify(p) PROVE TypeOK'
    BY <1>23, GotoType, FinishType, IdleType, HookTypes DEF HookNotify, TypeOK, Places, NoteFor, HookPlaces
  <1>24. ASSUME NEW p \in Sessions, Crash(p) PROVE TypeOK'
    BY <1>24, GotoType, FinishType, IdleType DEF Crash, TypeOK, Places
  <1>25. ASSUME NEW m \in Mandates, RazorpayMoves(m) PROVE TypeOK'
    <2>1. PICK t \in Lifecycle : \E pay \in PayOf(t.kind) : Transition(m, t, pay)
      BY <1>25 DEF RazorpayMoves
    <2>2. t.to \in LifeStates /\ t.kind \in Kinds
      BY DEF Lifecycle, LifeStates, Ongoing, Kinds
    <2>3. PICK pay \in PayOf(t.kind) : Transition(m, t, pay)
      BY <2>1
    <2>4. pay \in PayKinds
      BY BillingAssumption DEF PayOf, PayKinds
    <2> QED
      BY <1>25, <2>2, <2>3, <2>4 DEF RazorpayMoves, Transition, TypeOK, Event
  <1>26. ASSUME NEW m \in Mandates, RazorpayRefunds(m) PROVE TypeOK'
    BY <1>26 DEF RazorpayRefunds, TypeOK, Event, Kinds
  <1>27. CASE UNCHANGED vars
    BY <1>27 DEF vars, TypeOK
  <1> QED
    BY <1>1, <1>2, <1>3, <1>4, <1>5, <1>6, <1>7, <1>8, <1>9, <1>10, <1>11, <1>12, <1>13, <1>14, <1>15, <1>16, <1>17, <1>18, <1>19, <1>20, <1>21, <1>22, <1>23, <1>24, <1>25, <1>26, <1>27 DEF Next, Subscribe, Cancel, Grant, Sync, Hook, Razorpay, Sessions

-----------------------------------------------------------------------------
(* What one step may do to the rows, the mandates and the sessions *)

\* What a flush leaves in the row of the session's user, field by field.
LEMMA FlushRowFields ==
  ASSUME Links, NEW p \in Sessions, NEW new \in Row, sess[p].snap # NoRow,
         FlushRow(p, new)
  PROVE  \E u \in Users :
           /\ u = sess[p].user /\ row[u] \in Row /\ sess[p].snap \in Row
           /\ row[u] # NoRow /\ row'[u] \in Row /\ row'[u] # NoRow
           /\ \A v \in Users \ {u} : row'[v] = row[v]
           /\ row'[u].plan = Net(row[u].plan, sess[p].snap.plan, new.plan)
           /\ row'[u].status = Net(row[u].status, sess[p].snap.status, new.status)
           /\ row'[u].rzp = Net(row[u].rzp, sess[p].snap.rzp, new.rzp)
           /\ row'[u].synced = Net(row[u].synced, sess[p].snap.synced, new.synced)
  <1>1. /\ sess[p].user \in Users /\ sess[p].snap \in Row /\ row[sess[p].user] \in Row
    BY LoadedTypes
  <1>2. Flush(row[sess[p].user], sess[p].snap, new) \in Row
    BY <1>1, FlushType
  <1>3. row \in [Users -> Row \union {NoRow}]
    BY DEF Links, TypeOK
  <1>4. NoRow \notin Row
    BY BillingAssumption
  <1> QED
    BY <1>1, <1>2, <1>3, <1>4 DEF FlushRow, Flush

\* The ways the row of user u can change: a subscribe names its new mandate; a
\* grant sets a plan; a flush keeps the mandate, writes no plan but Free, and
\* writes trialing or active only for a mandate that was authenticated (Proof);
\* a Hub report stamps the row.
BySubscribe(u) ==
  \E p \in Sessions :
    /\ sess[p].at = "subscribe.commit" /\ sess[p].user = u
    /\ row'[u].rzp = sess[p].m /\ sess'[p] = Idle /\ closed' = closed
    /\ row'[u].synced => row[u] # NoRow /\ row[u].synced
    /\ row'[u].status \in {"trialing", "active"} =>
         row[u] # NoRow /\ row[u].status = row'[u].status
ByGrant(u) ==
  /\ u \in comped'
  /\ row[u] = NoRow => row'[u].rzp = NoMandate /\ ~row'[u].synced
  /\ row[u] # NoRow => row'[u].rzp = row[u].rzp /\ row'[u].synced = row[u].synced
ByFlush(u) ==
  /\ row[u] # NoRow
  /\ row'[u].rzp = row[u].rzp /\ row'[u].synced = row[u].synced
  /\ row'[u].plan \in {row[u].plan, "Free"}
  /\ row'[u].status \in {row[u].status, "canceled", "halted", "past_due", "paused"}
     \/ \E p \in Sessions : /\ sess[p].at = "hook.commit" /\ sess[p].user = u
                            /\ sess[p].ev.kind \in {"authenticated", "activated", "charged", "resumed"}
ByReport(u) ==
  /\ row[u] # NoRow
  /\ row'[u] = [row[u] EXCEPT !.synced = TRUE]
  /\ HubKnowsUser(u)'
RowChange(u) ==
  \/ row'[u] = row[u]
  \/ /\ row'[u] \in Row
     /\ BySubscribe(u) \/ ByGrant(u) \/ ByFlush(u) \/ ByReport(u)

\* The mandates and webhooks only grow, and a mandate keeps its owner.
Grows ==
  /\ sent \subseteq sent'
  /\ \A m \in Mandates, u \in Users : Owned(m, u) => Owned(m, u)'
  /\ \A u \in Users : row[u] # NoRow => row'[u] # NoRow

\* A flush that names no mandate and no stamp of its own keeps both.
LEMMA FlushKeeps ==
  ASSUME Links, NEW p \in Sessions, NEW new \in Row, sess[p].snap # NoRow,
         FlushRow(p, new), new.rzp = sess[p].snap.rzp, new.synced = sess[p].snap.synced
  PROVE  \E u \in Users :
           /\ u = sess[p].user /\ row[u] # NoRow /\ row'[u] \in Row
           /\ row'[u].rzp = row[u].rzp /\ row'[u].synced = row[u].synced
           /\ row'[u].plan = Net(row[u].plan, sess[p].snap.plan, new.plan)
           /\ row'[u].status \in {row[u].status, new.status}
           /\ \A v \in Users \ {u} : row'[v] = row[v]
  <1>1. PICK u \in Users :
          /\ u = sess[p].user /\ row[u] # NoRow /\ row'[u] \in Row
          /\ \A v \in Users \ {u} : row'[v] = row[v]
          /\ row'[u].plan = Net(row[u].plan, sess[p].snap.plan, new.plan)
          /\ row'[u].status = Net(row[u].status, sess[p].snap.status, new.status)
          /\ row'[u].rzp = row[u].rzp /\ row'[u].synced = row[u].synced
    BY FlushRowFields DEF Net
  <1>2. row'[u].status \in {row[u].status, new.status}
    BY <1>1 DEF Net
  <1> QED
    BY <1>1, <1>2

\* Subscribing changes a row in one of the three ways of RowChange.
LEMMA SubscribeRow ==
  ASSUME Links, NEW p \in Sessions, SubscribeCommit(p)
  PROVE  \A u \in Users : RowChange(u)
  <1>0. sess'[p] = Idle /\ closed' = closed
    BY DEF SubscribeCommit, Finish, Links, TypeOK
  <1>1. sess[p].at = "subscribe.commit" /\ sess[p].user \in Users /\ sess[p].m \in Mandates
    BY DEF SubscribeCommit, Links, SessionLinks, SessionLink
  <1>2. sess[p] \in SessionType /\ row \in [Users -> Row \union {NoRow}]
    BY DEF Links, TypeOK
  <1>3. Subscribed(p) \in Row
    BY <1>1, <1>2 DEF Subscribed, Row, Plans, Statuses, SessionType
  <1>4. Subscribed(p).rzp = sess[p].m /\ Subscribed(p).status = "created"
    BY DEF Subscribed
  <1>5. CASE sess[p].snap # NoRow
    <2>1. FlushRow(p, Subscribed(p))
      BY <1>5 DEF SubscribeCommit
    <2>2. Subscribed(p).synced = sess[p].snap.synced
      BY <1>5 DEF Subscribed
    <2>3. PICK v \in Users :
            /\ v = sess[p].user /\ row[v] # NoRow /\ row'[v] \in Row
            /\ \A w \in Users \ {v} : row'[w] = row[w]
            /\ row'[v].rzp = Net(row[v].rzp, sess[p].snap.rzp, sess[p].m)
            /\ row'[v].status = Net(row[v].status, sess[p].snap.status, "created")
            /\ row'[v].synced = row[v].synced
      BY <1>3, <1>4, <1>5, <2>1, <2>2, FlushRowFields DEF Net
    <2>4. row'[v].rzp = sess[p].m
      BY <1>1, <1>5, <2>3 DEF Net, Links, SessionLinks, SessionLink
    <2>5. row'[v].status \in {"created", row[v].status}
      BY <2>3 DEF Net
    <2>6. BySubscribe(v)
      BY <1>0, <1>1, <2>3, <2>4, <2>5 DEF BySubscribe
    <2> QED
      BY <2>3, <2>6 DEF RowChange
  <1>6. CASE sess[p].snap = NoRow
    <2>1. row' = row \/ (row[sess[p].user] = NoRow /\ row' = [row EXCEPT ![sess[p].user] = Subscribed(p)])
      BY <1>6 DEF SubscribeCommit
    <2>2. ~Subscribed(p).synced
      BY <1>6 DEF Subscribed
    <2>3. CASE row' # row
      <3>1. BySubscribe(sess[p].user)
        BY <1>0, <1>1, <1>2, <1>3, <1>4, <2>1, <2>2, <2>3 DEF BySubscribe
      <3> QED
        BY <1>1, <1>2, <1>3, <2>1, <2>3, <3>1 DEF RowChange
    <2> QED
      BY <2>3 DEF RowChange
  <1> QED
    BY <1>5, <1>6

\* So does cancelling,
LEMMA CancelRow ==
  ASSUME Links, NEW p \in Sessions, CancelCommit(p)
  PROVE  \A u \in Users : RowChange(u)
  <1> DEFINE snap  == sess[p].snap
             atEnd == AtCycleEnd(snap)
             new   == [snap EXCEPT !.cancelAtEnd = atEnd,
                                   !.status = IF atEnd THEN @ ELSE "canceled"]
  <1>1. snap # NoRow /\ snap \in Row
    BY LoadedTypes DEF CancelCommit, Links, SessionLinks, SessionLink
  <1>2. atEnd \in BOOLEAN
    BY DEF AtCycleEnd
  <1>3. /\ new \in Row /\ new.rzp = snap.rzp /\ new.synced = snap.synced
        /\ new.plan = snap.plan /\ new.status \in {snap.status, "canceled"}
    <2> HIDE DEF atEnd, snap
    <2> QED BY <1>1, <1>2 DEF Row, Statuses
  <1>4. FlushRow(p, new)
    BY DEF CancelCommit
  <1> HIDE DEF new
  <1>5. PICK v \in Users :
          /\ v = sess[p].user /\ row[v] # NoRow /\ row'[v] \in Row
          /\ row'[v].rzp = row[v].rzp /\ row'[v].synced = row[v].synced
          /\ row'[v].plan = row[v].plan
          /\ row'[v].status \in {row[v].status, "canceled"}
          /\ \A w \in Users \ {v} : row'[w] = row[w]
    BY <1>1, <1>3, <1>4, FlushRowFields DEF Net
  <1>6. ByFlush(v)
    BY <1>5 DEF ByFlush
  <1> QED
    BY <1>5, <1>6 DEF RowChange

\* and a plan granted by an administrator,
LEMMA GrantRow ==
  ASSUME Links, NEW p \in Sessions, GrantCommit(p)
  PROVE  \A u \in Users : RowChange(u)
  <1>1. PICK via \in Grants, plan \in Plans : GrantWrite(p, via, plan)
    BY DEF GrantCommit
  <1>2. sess[p].user \in Users /\ row \in [Users -> Row \union {NoRow}]
    BY DEF GrantCommit, Links, SessionLinks, SessionLink, TypeOK
  <1>3. CASE sess[p].snap # NoRow
    <2> DEFINE snap == sess[p].snap
               ends == IF via = "checkout" THEN FALSE ELSE snap.cancelAtEnd
               new  == [snap EXCEPT !.plan = plan, !.status = "active",
                          !.cancelAtEnd = IF via = "checkout" THEN FALSE ELSE @]
    <2>1. snap \in Row /\ ends \in BOOLEAN
      BY <1>3, LoadedTypes DEF Row
    <2>2. new \in Row /\ new.rzp = snap.rzp /\ new.synced = snap.synced
      <3>1. new = [snap EXCEPT !.plan = plan, !.status = "active", !.cancelAtEnd = ends]
        OBVIOUS
      <3> HIDE DEF new, ends, snap
      <3> QED
        BY <3>1, <2>1 DEF Row, Statuses
    <2>3. FlushRow(p, new) /\ comped' = comped \union {sess[p].user}
      BY <1>1, <1>3 DEF GrantWrite
    <2> HIDE DEF new, ends
    <2>4. PICK v \in Users :
            /\ v = sess[p].user /\ row[v] # NoRow /\ row'[v] \in Row
            /\ row'[v].rzp = row[v].rzp /\ row'[v].synced = row[v].synced
            /\ \A w \in Users \ {v} : row'[w] = row[w]
      BY <1>3, <2>2, <2>3, FlushKeeps
    <2>5. ByGrant(v)
      BY <2>3, <2>4 DEF ByGrant
    <2> QED
      BY <2>4, <2>5 DEF RowChange
  <1>4. CASE sess[p].snap = NoRow
    <2> DEFINE new == [plan |-> plan, status |-> "active", rzp |-> NoMandate,
                       cancelAtEnd |-> FALSE, synced |-> FALSE]
    <2>1. new \in Row
      BY DEF Row, Statuses
    <2>2. \/ row' = row
          \/ /\ row[sess[p].user] = NoRow /\ row' = [row EXCEPT ![sess[p].user] = new]
             /\ comped' = comped \union {sess[p].user}
      BY <1>1, <1>4 DEF GrantWrite
    <2>3. CASE row' # row
      <3>1. ByGrant(sess[p].user)
        BY <1>2, <2>2, <2>3 DEF ByGrant
      <3> QED
        BY <1>2, <2>1, <2>2, <2>3, <3>1 DEF RowChange
    <2> QED
      BY <2>3 DEF RowChange
  <1> QED
    BY <1>3, <1>4

\* and the answer to a purchase report,
LEMMA ReportRow ==
  ASSUME Links, NEW p \in Sessions, NEW key \in HubKeys,
         NEW status \in {"trial", "success", "refunded"},
         sess[p].user \in Users, row[sess[p].user] # NoRow,
         key[1] = sess[p].user \/ (key[1] \in Mandates /\ owner[key[1]] = sess[p].user),
         ReportAccepted(p, key, status) \/ ReportFailed(p, key, status), owner' = owner
  PROVE  \A u \in Users : RowChange(u)
  <1>0. PICK v \in Users : v = sess[p].user
    OBVIOUS
  <1>1. row[v] \in Row /\ row \in [Users -> Row \union {NoRow}]
    BY <1>0 DEF Links, TypeOK
  <1>2. CASE ReportFailed(p, key, status)
    BY <1>2 DEF ReportFailed, RowChange
  <1>3. CASE ReportAccepted(p, key, status)
    <2>1. hubTx'[key] = status
      BY <1>3 DEF ReportAccepted, Links, TypeOK
    <2>2. HubKnowsUser(v)'
      BY <1>0, <2>1 DEF HubKnowsUser
    <2>3. row' = [row EXCEPT ![v] = [row[v] EXCEPT !.synced = TRUE]]
      BY <1>0, <1>3 DEF ReportAccepted
    <2>4. [row[v] EXCEPT !.synced = TRUE] \in Row
      BY <1>1 DEF Row
    <2>5. ByReport(v)
      BY <1>0, <1>1, <2>2, <2>3 DEF ByReport
    <2> QED
      BY <1>1, <2>3, <2>4, <2>5 DEF RowChange
  <1> QED
    BY <1>2, <1>3

\* and the retried report of the sweep,
LEMMA SyncRow ==
  ASSUME Links, NEW p \in Sessions, SyncAccepted(p) \/ SyncFailed(p)
  PROVE  \A u \in Users : RowChange(u)
  <1>1. sess[p].at = "sync.report" /\ sess[p].snap # NoRow /\ owner' = owner
    BY DEF SyncAccepted, SyncFailed, Links, SessionLinks, SessionLink, rzpVars
  <1>2. SyncKey(sess[p]) \in HubKeys
    BY <1>1, LoadedTypes DEF SyncKey, HubKeys, Row
  <1>3. SyncStatus(sess[p]) \in {"trial", "success", "refunded"}
    BY DEF SyncStatus
  <1>4. /\ sess[p].user \in Users /\ row[sess[p].user] # NoRow /\ sess[p].snap \in Row
        /\ sess[p].snap.rzp # NoMandate => owner[sess[p].snap.rzp] = sess[p].user
    BY <1>1, LoadedTypes DEF Links, SessionLinks, SessionLink, Owned
  <1>5. \/ SyncKey(sess[p])[1] = sess[p].user
        \/ (SyncKey(sess[p])[1] \in Mandates /\ owner[SyncKey(sess[p])[1]] = sess[p].user)
    BY <1>4 DEF SyncKey, Row
  <1>6. \/ ReportAccepted(p, SyncKey(sess[p]), SyncStatus(sess[p]))
        \/ ReportFailed(p, SyncKey(sess[p]), SyncStatus(sess[p]))
    BY DEF SyncAccepted, SyncFailed
  <1> QED
    BY <1>1, <1>2, <1>3, <1>4, <1>5, <1>6, ReportRow

\* and the report a webhook makes at its end.
LEMMA HookReportRow ==
  ASSUME Links, NEW p \in Sessions, HookReport(p)
  PROVE  \A u \in Users : RowChange(u)
  <1>1. sess[p].at \in HookPlaces /\ owner' = owner
    BY DEF HookReport, HookPlaces, rzpVars
  <1>2. /\ sess[p].user \in Users /\ row[sess[p].user] # NoRow
        /\ sess[p].ev.m \in Mandates /\ sess[p].ev.pay \in PayKinds
        /\ owner[sess[p].ev.m] = sess[p].user
    BY <1>1, HookTypes DEF Links, SessionLinks, SessionLink, Owned
  <1>3. ReportKey(sess[p].ev) \in HubKeys /\ ReportKey(sess[p].ev)[1] = sess[p].ev.m
    BY <1>2 DEF ReportKey, HubKeys, PayKinds
  <1>4. ReportStatus(sess[p].ev) \in {"trial", "success", "refunded"}
    BY DEF ReportStatus
  <1>5. \/ ReportAccepted(p, ReportKey(sess[p].ev), ReportStatus(sess[p].ev))
        \/ ReportFailed(p, ReportKey(sess[p].ev), ReportStatus(sess[p].ev))
    BY DEF HookReport
  <1> QED
    BY <1>1, <1>2, <1>3, <1>4, <1>5, ReportRow

\* The row written by a webhook: a status for its kind and, at the end of the
\* mandate, the Free plan.
LEMMA HookRow ==
  ASSUME Links, NEW p \in Sessions, HookStatus(p) \/ HookCharged(p) \/ HookDowngrade(p)
  PROVE  \A u \in Users : RowChange(u)
  <1> DEFINE snap == sess[p].snap
             kind == sess[p].ev.kind
  <1>1. sess[p].at = "hook.commit" /\ snap # NoRow /\ snap \in Row
    BY LoadedTypes DEF HookStatus, HookCharged, HookDowngrade, Links, SessionLinks, SessionLink
  <1>2. PICK new \in Row :
          /\ FlushRow(p, new) /\ new.rzp = snap.rzp /\ new.synced = snap.synced
          /\ new.plan \in {snap.plan, "Free"}
          /\ \/ new.status \in {"canceled", "halted", "past_due", "paused"}
             \/ kind \in {"authenticated", "activated", "charged", "resumed"}
    <2> DEFINE one == [snap EXCEPT !.status = StatusFor(kind)]
               two == [snap EXCEPT !.status = StatusFor(kind), !.plan = "Free"]
    <2>1. StatusFor(kind) \in Statuses /\ "Free" \in Plans
      BY DEF StatusFor, Statuses, Plans
    <2>2. StatusFor(kind) \in {"canceled", "halted", "past_due", "paused"}
          \/ kind \in {"authenticated", "activated", "charged", "resumed"}
      BY DEF StatusFor
    <2>3. /\ one \in Row /\ one.rzp = snap.rzp /\ one.synced = snap.synced
          /\ one.plan = snap.plan /\ one.status = StatusFor(kind)
          /\ two \in Row /\ two.rzp = snap.rzp /\ two.synced = snap.synced
          /\ two.plan = "Free" /\ two.status = StatusFor(kind)
      <3> HIDE DEF snap, kind
      <3> QED BY <1>1, <2>1 DEF Row
    <2>4. FlushRow(p, one) \/ FlushRow(p, two)
      BY DEF HookStatus, HookCharged, HookDowngrade
    <2> HIDE DEF one, two
    <2> QED
      BY <2>2, <2>3, <2>4
  <1>3. PICK v \in Users :
          /\ v = sess[p].user /\ row[v] # NoRow /\ row'[v] \in Row
          /\ row'[v].rzp = row[v].rzp /\ row'[v].synced = row[v].synced
          /\ row'[v].plan \in {row[v].plan, "Free"}
          /\ row'[v].status \in {row[v].status, new.status}
          /\ \A w \in Users \ {v} : row'[w] = row[w]
    <2>1. PICK v \in Users :
            /\ v = sess[p].user /\ row[v] # NoRow /\ row'[v] \in Row
            /\ row'[v].rzp = row[v].rzp /\ row'[v].synced = row[v].synced
            /\ row'[v].plan = Net(row[v].plan, snap.plan, new.plan)
            /\ row'[v].status \in {row[v].status, new.status}
            /\ \A w \in Users \ {v} : row'[w] = row[w]
      BY <1>1, <1>2, FlushKeeps
    <2>2. row'[v].plan \in {row[v].plan, "Free"}
      BY <1>2, <2>1 DEF Net
    <2> QED
      BY <2>1, <2>2
  <1>4. ByFlush(v)
    BY <1>1, <1>2, <1>3 DEF ByFlush
  <1> QED
    BY <1>3, <1>4 DEF RowChange

\* Only these steps change a row, so each row changes in one of those ways.
LEMMA RowStep ==
  ASSUME Links, [Next]_vars
  PROVE  \A u \in Users : RowChange(u)
  <1>1. CASE row' = row
    BY <1>1 DEF RowChange
  <1>2. CASE row' # row
    <2>1. \E p \in Sessions :
            \/ SubscribeCommit(p) \/ CancelCommit(p) \/ GrantCommit(p)
            \/ SyncAccepted(p) \/ SyncFailed(p) \/ HookReport(p)
            \/ HookStatus(p) \/ HookCharged(p) \/ HookDowngrade(p)
      BY <1>2 DEF Next, vars, dbVars, Sessions, Subscribe, Cancel, Grant, Sync, Hook, Razorpay,
           SubscribeLoad, SubscribeCancelOld, SubscribeCreate, SubscribeRefused, CancelLoad,
           CancelHub, GrantLoad, SyncSelect, SyncLoad, HookReceive, HookRefund, HookVerify,
           HookInsert, HookNotify, Crash, RazorpayMoves, RazorpayRefunds
    <2> QED
      BY <2>1, SubscribeRow, CancelRow, GrantRow, SyncRow, HookReportRow, HookRow
  <1> QED
    BY <1>1, <1>2

-----------------------------------------------------------------------------
(* The links are inductive *)

\* The steps that talk to Razorpay are the only ones that change a mandate.
LEMMA GrowsStep ==
  ASSUME Links, [Next]_vars
  PROVE  Grows
  <1>1. \A u \in Users : row[u] # NoRow => row'[u] # NoRow
    BY RowStep, BillingAssumption DEF RowChange, BySubscribe, ByGrant, ByFlush, ByReport
  <1>2. CASE UNCHANGED <<life, owner, sent>>
    BY <1>1, <1>2 DEF Grows, Owned
  <1>3. CASE ~UNCHANGED <<life, owner, sent>>
    <2>1. \/ \E p \in Sessions : SubscribeCancelOld(p) \/ SubscribeCreate(p) \/ CancelHub(p)
          \/ \E m \in Mandates : RazorpayMoves(m) \/ RazorpayRefunds(m)
      BY <1>3 DEF Next, vars, dbVars, rzpVars, Sessions, Subscribe, Cancel, Grant, Sync, Hook, Razorpay,
           SubscribeLoad, SubscribeRefused, SubscribeCommit, CancelLoad, CancelCommit, GrantLoad,
           GrantCommit, SyncSelect, SyncLoad, SyncAccepted, SyncFailed, HookReceive, HookStatus,
           HookCharged, HookDowngrade, HookRefund, HookVerify, HookInsert, HookReport, HookNotify, Crash
    <2>2. ASSUME NEW p \in Sessions, SubscribeCreate(p) PROVE Grows
      <3>1. PICK m \in Mandates : HubCreates(m, sess[p].user)
        BY <2>2 DEF SubscribeCreate
      <3> QED
        BY <1>1, <2>2, <3>1 DEF SubscribeCreate, HubCreates, Grows, Owned, Links, TypeOK
    <2>3. ASSUME NEW m \in Mandates, HubCancels(m), owner' = owner PROVE Grows
      BY <1>1, <2>3 DEF HubCancels, Grows, Owned, Links, TypeOK
    <2>4. ASSUME NEW p \in Sessions, SubscribeCancelOld(p) \/ CancelHub(p) PROVE Grows
      <3>1. sess[p].snap.rzp \in Mandates /\ owner' = owner
        BY <2>4, LoadedTypes DEF SubscribeCancelOld, CancelHub, Links, SessionLinks, SessionLink, Row
      <3>2. HubCancels(sess[p].snap.rzp) \/ UNCHANGED <<life, sent>>
        BY <2>4 DEF SubscribeCancelOld, CancelHub, HubRefuses, HubTakesCancel
      <3> QED
        BY <1>3, <2>3, <3>1, <3>2
    <2>5. ASSUME NEW m \in Mandates, RazorpayMoves(m) PROVE Grows
      <3>1. PICK t \in Lifecycle : \E pay \in PayOf(t.kind) : Transition(m, t, pay)
        BY <2>5 DEF RazorpayMoves
      <3>2. t.to # "none"
        BY DEF Lifecycle
      <3> QED
        BY <1>1, <2>5, <3>1, <3>2 DEF RazorpayMoves, Transition, Grows, Owned, Links, TypeOK
    <2>6. ASSUME NEW m \in Mandates, RazorpayRefunds(m) PROVE Grows
      BY <1>1, <2>6 DEF RazorpayRefunds, Grows, Owned
    <2> QED
      BY <2>1, <2>2, <2>4, <2>5, <2>6
  <1> QED
    BY <1>2, <1>3

\* A session that does not step keeps its link.
LEMMA LinkKept ==
  ASSUME Links, Grows, NEW p \in Sessions, sess'[p] = sess[p]
  PROVE  SessionLink(p)'
  <1>1. SessionLink(p) /\ sess[p] \in SessionType
    BY DEF Links, SessionLinks, TypeOK
  <1>2. /\ sess[p].snap # NoRow /\ sess[p].snap.rzp # NoMandate => sess[p].snap.rzp \in Mandates
        /\ sess[p].ev \in sent => sess[p].ev.m \in Mandates
    BY <1>1 DEF SessionType, Row, Links, TypeOK, Event
  <1> QED
    BY <1>1, <1>2 DEF SessionLink, Grows, HookPlaces

\* A finished session has nothing to refer to.
LEMMA IdleLink ==
  ASSUME NEW p \in Sessions, sess'[p] = Idle
  PROVE  SessionLink(p)'
  BY DEF SessionLink, Idle, HookPlaces

\* A session that goes on keeps its links, at the places where the code goes.
LEMMA GotoLink ==
  ASSUME Links, Grows, NEW p \in Sessions, NEW place \in Places, Goto(p, place),
         sess[p].at # "idle",
         \/ place = "subscribe.create"
         \/ place = "cancel.commit" /\ sess[p].snap # NoRow
         \/ sess[p].at \in HookPlaces /\ place \in HookPlaces
  PROVE  SessionLink(p)'
  <1>1. SessionLink(p) /\ sess[p] \in SessionType
    BY DEF Links, SessionLinks, TypeOK
  <1>2. /\ sess[p].snap # NoRow /\ sess[p].snap.rzp # NoMandate => sess[p].snap.rzp \in Mandates
        /\ sess[p].ev \in sent => sess[p].ev.m \in Mandates
    BY <1>1 DEF SessionType, Row, Links, TypeOK, Event
  <1>3. /\ sess'[p].at = place /\ sess'[p].user = sess[p].user /\ sess'[p].snap = sess[p].snap
        /\ sess'[p].ev = sess[p].ev /\ sess'[p].m = sess[p].m
    BY DEF Goto, Links, TypeOK, SessionType
  <1> QED
    BY <1>1, <1>2, <1>3 DEF SessionLink, Grows, HookPlaces

\* The steps after which a session is at a new place, other than done.
Goes(p) ==
  \/ \E u \in Users : \/ SubscribeLoad(p, u) \/ CancelLoad(p, u) \/ GrantLoad(p, u)
                       \/ SyncSelect(p, u)
  \/ SubscribeCancelOld(p) \/ SubscribeCreate(p) \/ CancelHub(p) \/ SyncLoad(p)
  \/ \E e \in sent : HookReceive(p, e)
  \/ HookStatus(p) \/ HookCharged(p) \/ HookDowngrade(p) \/ HookRefund(p)
  \/ HookVerify(p) \/ HookInsert(p) \/ HookReport(p)

\* The session that acts in a step moves in one of the ways of Goes.
LEMMA ActingSession ==
  ASSUME Links, [Next]_vars, NEW p \in Sessions, sess'[p] # sess[p], sess'[p] # Idle
  PROVE  Goes(p)
  <1>1. PICK q \in Sessions : sess' = [sess EXCEPT ![q] = Idle] \/ Goes(q)
    BY DEF Next, vars, Sessions, Subscribe, Cancel, Grant, Sync, Hook, Razorpay, Finish, Goes,
       SubscribeRefused, SubscribeCommit, CancelCommit, GrantCommit, SyncAccepted, SyncFailed,
       HookNotify, Crash, RazorpayMoves, RazorpayRefunds
  <1>2. \E s : sess' = [sess EXCEPT ![q] = s]
    BY <1>1 DEF Goes, SubscribeLoad, CancelLoad, GrantLoad, SyncSelect, SubscribeCancelOld,
         SubscribeCreate, CancelHub, SyncLoad, HookReceive, HookStatus, HookCharged,
         HookDowngrade, HookRefund, HookVerify, HookInsert, HookReport, Goto, Finish
  <1>3. q = p /\ sess' # [sess EXCEPT ![q] = Idle]
    BY <1>2 DEF Links, TypeOK
  <1> QED
    BY <1>1, <1>3

\* Whatever step is taken, what each session remembers refers to things that exist.
LEMMA SessionLinksStep ==
  ASSUME Links, [Next]_vars
  PROVE  SessionLinks'
  <1>0. Grows
    BY GrowsStep
  <1>a. sess \in [Sessions -> SessionType] /\ row \in [Users -> Row \union {NoRow}]
    BY DEF Links, TypeOK
  <1>1. SUFFICES ASSUME NEW p \in Sessions PROVE SessionLink(p)'
    BY DEF SessionLinks
  <1>b. SessionLink(p)
    BY DEF Links, SessionLinks
  <1>2. CASE sess'[p] = sess[p]
    BY <1>0, <1>2, LinkKept
  <1>3. CASE sess'[p] # sess[p] /\ sess'[p] = Idle
    BY <1>3, IdleLink
  <1>4. CASE sess'[p] # sess[p] /\ sess'[p] # Idle
    <2>1. Goes(p)
      BY <1>4, ActingSession
    <2>2. ASSUME NEW u \in Users, SubscribeLoad(p, u) PROVE SessionLink(p)'
      <3>1. /\ sess'[p].user = u /\ sess'[p].snap = row[u] /\ row' = row
            /\ UNCHANGED <<life, owner, sent>>
            /\ \/ sess'[p].at = "subscribe.cancelOld" /\ row[u] # NoRow /\ row[u].rzp # NoMandate
               \/ sess'[p].at = "subscribe.create"
        BY <2>2, <1>a DEF SubscribeLoad, dbVars, rzpVars, Idle
      <3> QED
        BY <3>1 DEF SessionLink, HookPlaces, Links, RowLinks, Owned
    <2>3. ASSUME NEW u \in Users, CancelLoad(p, u) PROVE SessionLink(p)'
      <3>1. /\ sess'[p].user = u /\ sess'[p].snap = row[u] /\ row' = row /\ row[u] # NoRow
            /\ UNCHANGED <<life, owner, sent>>
            /\ \/ sess'[p].at = "cancel.hub" /\ row[u].rzp # NoMandate
               \/ sess'[p].at = "cancel.commit"
        BY <2>3, <1>a DEF CancelLoad, dbVars, rzpVars, Idle
      <3> QED
        BY <3>1 DEF SessionLink, HookPlaces, Links, RowLinks, Owned
    <2>4. ASSUME NEW u \in Users, GrantLoad(p, u) PROVE SessionLink(p)'
      <3>1. /\ sess'[p].user = u /\ sess'[p].snap = row[u] /\ row' = row
            /\ UNCHANGED <<life, owner, sent>> /\ sess'[p].at = "grant.commit"
        BY <2>4, <1>a DEF GrantLoad, dbVars, rzpVars, Idle
      <3> QED
        BY <3>1 DEF SessionLink, HookPlaces, Links, RowLinks, Owned
    <2>5. ASSUME NEW u \in Users, SyncSelect(p, u) PROVE SessionLink(p)'
      <3>1. /\ sess'[p].user = u /\ sess'[p].snap = row[u] /\ row' = row /\ row[u] # NoRow
            /\ UNCHANGED <<life, owner, sent>> /\ sess'[p].at = "sync.load"
        BY <2>5, <1>a DEF SyncSelect, NeedsSync, dbVars, rzpVars, Idle
      <3> QED
        BY <3>1 DEF SessionLink, HookPlaces, Links, RowLinks, Owned
    <2>6. ASSUME SubscribeCancelOld(p) PROVE SessionLink(p)'
      BY <1>0, <2>6, GotoLink DEF SubscribeCancelOld, Places
    <2>7. ASSUME SubscribeCreate(p) PROVE SessionLink(p)'
      <3>1. PICK m \in Mandates :
              /\ HubCreates(m, sess[p].user) /\ row' = row
              /\ sess' = [sess EXCEPT ![p].at = "subscribe.commit", ![p].m = m]
        BY <1>4, <2>7, <1>a DEF SubscribeCreate, Finish, dbVars
      <3>2. /\ sess'[p].at = "subscribe.commit" /\ sess'[p].m = m
            /\ sess'[p].user = sess[p].user /\ sess'[p].snap = sess[p].snap
        BY <1>a, <3>1 DEF SessionType
      <3>3. sess[p].user \in Users /\ Owned(m, sess[p].user)'
        <4>1. PICK u \in Users : u = sess[p].user
          BY <2>7, <1>b DEF SubscribeCreate, SessionLink
        <4>2. owner'[m] = u /\ life'[m] = "created"
          BY <3>1, <4>1 DEF HubCreates, Links, TypeOK
        <4> QED
          BY <3>2, <4>1, <4>2 DEF Owned
      <3>4. sess[p].snap # NoRow => sess[p].snap.rzp # m
        BY <1>b, <3>1, BillingAssumption DEF SessionLink, HubCreates, Owned
      <3> QED
        BY <1>0, <1>a, <1>b, <3>1, <3>2, <3>3, <3>4 DEF SessionLink, HookPlaces, Grows, SessionType, Row, Owned
    <2>8. ASSUME CancelHub(p) PROVE SessionLink(p)'
      <3>1. Goto(p, "cancel.commit") /\ sess[p].at = "cancel.hub"
        BY <1>4, <1>a, <2>8 DEF CancelHub, Finish
      <3> QED
        BY <1>0, <1>b, <3>1, GotoLink DEF SessionLink, Places
    <2>9. ASSUME SyncLoad(p) PROVE SessionLink(p)'
      <3>1. PICK loaded \in {sess[p].snap, row[sess[p].user]} :
              /\ sess[p].at = "sync.load" /\ row' = row /\ UNCHANGED <<life, owner, sent>>
              /\ sess' = [sess EXCEPT ![p].at = "sync.report", ![p].snap = loaded]
        BY <1>4, <1>a, <2>9 DEF SyncLoad, Finish, dbVars, rzpVars
      <3>2. sess'[p].at = "sync.report" /\ sess'[p].snap = loaded /\ sess'[p].user = sess[p].user
        BY <1>a, <3>1 DEF SessionType
      <3>3. /\ sess[p].user \in Users /\ row[sess[p].user] # NoRow /\ loaded # NoRow
            /\ loaded.rzp # NoMandate => Owned(loaded.rzp, sess[p].user)
        BY <1>b, <3>1 DEF SessionLink, Links, RowLinks
      <3> QED
        BY <3>1, <3>2, <3>3 DEF SessionLink, HookPlaces, Owned
    <2>10. ASSUME NEW e \in sent, HookReceive(p, e) PROVE SessionLink(p)'
      <3>1. PICK u \in Users :
              /\ IF e.kind = "refunded" THEN hist[PayRow(e)] > 0 /\ u = owner[e.m]
                 ELSE row[u] # NoRow /\ row[u].rzp = e.m
              /\ sess'[p].at = "hook.commit" /\ sess'[p].user = u
              /\ sess'[p].snap = row[u] /\ sess'[p].ev = e
              /\ row' = row /\ UNCHANGED <<life, owner, sent>>
        BY <1>a, <2>10 DEF HookReceive, dbVars, rzpVars
      <3>2. e \in Event
        BY DEF Links, TypeOK
      <3>3. row[u] # NoRow /\ Owned(e.m, u)
        <4>1. CASE e.kind = "refunded"
          BY <3>1, <3>2, <4>1 DEF PayRow, Links, HistLinks, Event, Owned
        <4>2. CASE e.kind # "refunded"
          BY <3>1, <3>2, <4>2, BillingAssumption DEF Links, RowLinks, Event
        <4> QED
          BY <4>1, <4>2
      <3> QED
        BY <3>1, <3>3 DEF SessionLink, HookPlaces, Links, RowLinks, Owned
    <2>11. ASSUME \/ HookStatus(p) \/ HookCharged(p) \/ HookDowngrade(p) \/ HookRefund(p)
                  \/ HookVerify(p) \/ HookInsert(p) \/ HookReport(p)
           PROVE  SessionLink(p)'
      <3>1. /\ sess[p].at \in HookPlaces
            /\ \E place \in HookPlaces : Goto(p, place)
        BY <1>4, <1>a, <2>11 DEF HookStatus, HookCharged, HookDowngrade, HookRefund, HookVerify,
             HookInsert, HookReport, HookPlaces, Finish
      <3> QED
        BY <1>0, <3>1, GotoLink DEF HookPlaces, Places
    <2> QED
      BY <2>1, <2>2, <2>3, <2>4, <2>5, <2>6, <2>7, <2>8, <2>9, <2>10, <2>11 DEF Goes
  <1> QED
    BY <1>2, <1>3, <1>4

\* A row goes on naming a mandate of its own user.
LEMMA RowLinksStep ==
  ASSUME Links, [Next]_vars
  PROVE  RowLinks'
  <1>1. Grows /\ \A u \in Users : RowChange(u)
    BY GrowsStep, RowStep
  <1>2. SUFFICES ASSUME NEW u \in Users, row'[u] # NoRow, row'[u].rzp # NoMandate
                 PROVE  \E m \in Mandates : m = row'[u].rzp /\ Owned(m, u)'
    BY DEF RowLinks, Owned
  <1>3. CASE row'[u] = row[u] \/ (row[u] # NoRow /\ row'[u].rzp = row[u].rzp)
    <2>1. row[u] # NoRow /\ row[u].rzp \in Mandates /\ row'[u].rzp = row[u].rzp
      BY <1>2, <1>3 DEF Links, TypeOK, Row
    <2>2. Owned(row[u].rzp, u)
      BY <1>2, <2>1 DEF Links, RowLinks
    <2>3. PICK m \in Mandates : m = row[u].rzp
      BY <2>1
    <2> QED
      BY <1>1, <2>1, <2>2, <2>3 DEF Grows
  <1>4. CASE BySubscribe(u)
    <2>1. PICK p \in Sessions : /\ sess[p].at = "subscribe.commit" /\ sess[p].user = u
                                /\ row'[u].rzp = sess[p].m
      BY <1>4 DEF BySubscribe
    <2>2. PICK m \in Mandates : m = sess[p].m /\ Owned(m, u)
      BY <2>1 DEF Links, SessionLinks, SessionLink
    <2> QED
      BY <1>1, <2>1, <2>2 DEF Grows
  <1> QED
    BY <1>1, <1>2, <1>3, <1>4 DEF RowChange, ByGrant, ByFlush, ByReport, Links, TypeOK, Row

\* A payment is recorded for a user who has a row, and that stays so.
LEMMA HistLinksStep ==
  ASSUME Links, [Next]_vars
  PROVE  HistLinks'
  <1>1. Grows
    BY GrowsStep
  <1>2. SUFFICES ASSUME NEW m \in Mandates, NEW k \in PayKinds, hist'[<<m, k>>] > 0
                 PROVE  owner'[m] \in Users /\ row'[owner'[m]] # NoRow /\ life'[m] # "none"
    BY DEF HistLinks
  <1>3. \/ hist'[<<m, k>>] = hist[<<m, k>>]
        \/ \E p \in Sessions : sess[p].at \in HookPlaces /\ sess[p].ev.m = m
    <2>1. CASE hist' = hist
      BY <2>1
    <2>2. CASE hist' # hist
      <3>1. PICK p \in Sessions : HookCharged(p) \/ HookInsert(p)
        BY <2>2 DEF Next, vars, dbVars, Sessions, Subscribe, Cancel, Grant, Sync, Hook, Razorpay,
           SubscribeLoad, SubscribeCancelOld, SubscribeCreate, SubscribeRefused, SubscribeCommit,
           CancelLoad, CancelHub, CancelCommit, GrantLoad, GrantCommit, SyncSelect, SyncLoad,
           SyncAccepted, SyncFailed, HookReceive, HookStatus, HookDowngrade, HookRefund, HookVerify,
           HookReport, HookNotify, Crash, RazorpayMoves, RazorpayRefunds
      <3>2. AddPaymentRow(sess[p].ev) /\ sess[p].at \in HookPlaces
        BY <2>2, <3>1 DEF HookCharged, HookInsert, HookPlaces
      <3>3. PayRow(sess[p].ev) = <<m, k>> \/ hist'[<<m, k>>] = hist[<<m, k>>]
        BY <3>2, HookTypes DEF AddPaymentRow, Links, TypeOK, PayRow
      <3> QED
        BY <3>2, <3>3 DEF PayRow
    <2> QED
      BY <2>1, <2>2
  <1>4. \E u \in Users : Owned(m, u) /\ row[u] # NoRow
    BY <1>2, <1>3, HookTypes DEF Links, HistLinks, SessionLinks, SessionLink, Owned
  <1> QED
    BY <1>1, <1>4 DEF Grows, Owned

\* Links hold in the initial state.
LEMMA LinksInit == Init => Links
  <1>1. Init => TypeOK
    BY TypeInit
  <1>2. Init => SessionLinks
    BY DEF Init, SessionLinks, SessionLink, Idle, HookPlaces
  <1>3. Init => RowLinks /\ HistLinks
    BY DEF Init, RowLinks, HistLinks
  <1> QED
    BY <1>1, <1>2, <1>3 DEF Links

\* Links are inductive: the three parts, each from the whole.
LEMMA LinksStep == Links /\ [Next]_vars => Links'
  BY TypeStep, SessionLinksStep, RowLinksStep, HistLinksStep DEF Links

\* What a session, a row and the billing history refer to stays there.
THEOREM LinksInvariant == Spec => []Links
  BY LinksInit, LinksStep, PTL DEF Spec

\* No handler writes a value of the wrong type to a row, a session, the billing
\* history or the Hub, whatever runs in between.
THEOREM TypeCorrect == Spec => []TypeOK
  <1>1. Links => TypeOK
    BY DEF Links
  <1> QED
    BY <1>1, LinksInvariant, PTL

-----------------------------------------------------------------------------
(* hub_synced_at is truthful *)

OwnersExist == \A m \in Mandates : owner[m] \in Users => life[m] # "none"
StampInv == Links /\ OwnersExist /\ StampTruthful

\* What the Hub holds about a user it keeps.
LEMMA HubKeeps ==
  ASSUME Links, OwnersExist, [Next]_vars
  PROVE  /\ OwnersExist'
         /\ \A u \in Users : HubKnowsUser(u) => HubKnowsUser(u)'
  <1>1. Grows
    BY GrowsStep
  <1>2. OwnersExist'
    <2>1. SUFFICES ASSUME NEW m \in Mandates, owner'[m] \in Users PROVE life'[m] # "none"
      BY DEF OwnersExist
    <2>2. CASE owner'[m] = owner[m]
      BY <1>1, <2>1, <2>2 DEF OwnersExist, Grows, Owned
    <2>3. CASE owner'[m] # owner[m]
      <3>1. PICK p \in Sessions : SubscribeCreate(p)
        BY <2>3 DEF Next, vars, dbVars, rzpVars, Sessions, Subscribe, Cancel, Grant, Sync, Hook,
           Razorpay, SubscribeLoad, SubscribeCancelOld, SubscribeRefused, SubscribeCommit,
           CancelLoad, CancelHub, CancelCommit, GrantLoad, GrantCommit, SyncSelect, SyncLoad,
           SyncAccepted, SyncFailed, HookReceive, HookStatus, HookCharged, HookDowngrade,
           HookRefund, HookVerify, HookInsert, HookReport, HookNotify, Crash, RazorpayMoves,
           RazorpayRefunds
      <3>2. PICK n \in Mandates : HubCreates(n, sess[p].user)
        BY <3>1 DEF SubscribeCreate
      <3> QED
        BY <2>1, <2>3, <3>2 DEF HubCreates, Links, TypeOK
    <2> QED
      BY <2>2, <2>3
  <1>3. \A k \in HubKeys : hubTx[k] # "none" => hubTx'[k] # "none"
    <2>1. CASE hubTx' = hubTx
      BY <2>1
    <2>2. CASE hubTx' # hubTx
      <3>1. PICK p \in Sessions : SyncAccepted(p) \/ SyncFailed(p) \/ HookReport(p)
        BY <2>2 DEF Next, vars, dbVars, rzpVars, Sessions, Subscribe, Cancel, Grant, Sync, Hook,
           Razorpay, SubscribeLoad, SubscribeCancelOld, SubscribeCreate, SubscribeRefused,
           SubscribeCommit, CancelLoad, CancelHub, CancelCommit, GrantLoad, GrantCommit,
           SyncSelect, SyncLoad, HookReceive, HookStatus, HookCharged, HookDowngrade,
           HookRefund, HookVerify, HookInsert, HookNotify, Crash, RazorpayMoves, RazorpayRefunds
      <3>2. PICK key, status : /\ hubTx' = [hubTx EXCEPT ![key] = status]
                               /\ status \in {"trial", "success", "refunded"}
        <4>1. SyncStatus(sess[p]) \in {"trial", "success", "refunded"}
              /\ ReportStatus(sess[p].ev) \in {"trial", "success", "refunded"}
          BY DEF SyncStatus, ReportStatus
        <4> QED
          BY <2>2, <3>1, <4>1 DEF SyncAccepted, SyncFailed, HookReport, ReportAccepted, ReportFailed
      <3> QED
        BY <3>2 DEF Links, TypeOK
    <2> QED
      BY <2>1, <2>2
  <1>4. ASSUME NEW u \in Users, HubKnowsUser(u) PROVE HubKnowsUser(u)'
    <2>1. PICK k \in HubKeys : /\ hubTx[k] # "none"
                               /\ k[1] = u \/ (k[1] \in Mandates /\ owner[k[1]] = u)
      BY <1>4 DEF HubKnowsUser
    <2>2. k[1] = u \/ (k[1] \in Mandates /\ owner'[k[1]] = u)
      BY <1>1, <2>1 DEF Grows, Owned, OwnersExist
    <2> QED
      BY <1>3, <2>1, <2>2 DEF HubKnowsUser
  <1> QED
    BY <1>2, <1>4

\* The stamp invariant is inductive.
LEMMA StampStep ==
  ASSUME StampInv, [Next]_vars
  PROVE  StampInv'
  <1>1. Links' /\ OwnersExist' /\ \A u \in Users : RowChange(u) /\ (HubKnowsUser(u) => HubKnowsUser(u)')
    BY LinksStep, RowStep, HubKeeps DEF StampInv
  <1>2. ASSUME NEW u \in Users, row'[u] # NoRow, row'[u].synced PROVE HubKnowsUser(u)'
    <2>1. CASE row[u] # NoRow /\ row[u].synced
      BY <1>1, <2>1 DEF StampInv, StampTruthful
    <2>2. CASE ByReport(u)
      BY <2>2 DEF ByReport
    <2> QED
      BY <1>1, <1>2, <2>1, <2>2 DEF RowChange, BySubscribe, ByGrant, ByFlush
  <1> QED
    BY <1>1, <1>2 DEF StampInv, StampTruthful

\* hub_synced_at is set only when the Hub holds a transaction of the user:
\* neither a lost reply nor a concurrent commit stamps a row the Hub has not
\* heard of.
THEOREM StampIsTruthful == Spec => []StampTruthful
  <1>1. Init => StampInv
    BY LinksInit, BillingAssumption DEF Init, StampInv, OwnersExist, StampTruthful
  <1>2. StampInv /\ [Next]_vars => StampInv'
    BY StampStep
  <1>3. StampInv => StampTruthful
    BY DEF StampInv
  <1> QED
    BY <1>1, <1>2, <1>3, PTL DEF Spec

-----------------------------------------------------------------------------
(* Entitlement is backed by an authenticated mandate *)

\* Only an authenticated mandate goes on, and only its webhooks say so.
LifeBacked == \A m \in Mandates : life[m] \in Ongoing => Authenticated(m)
SentBacked ==
  \A e \in sent : e.kind \in {"activated", "charged", "resumed"} => Authenticated(e.m)
Backed(u) == \E m \in Mandates : Owned(m, u) /\ Authenticated(m)
RowBacked ==
  \A u \in Users :
    row[u] # NoRow /\ row[u].status \in {"trialing", "active"} /\ u \notin comped => Backed(u)
EntitlementInv == Links /\ LifeBacked /\ SentBacked /\ RowBacked

\* What Razorpay said stays said.
LEMMA AuthenticatedStays ==
  ASSUME Links, Grows
  PROVE  /\ \A m \in Mandates : Authenticated(m) => Authenticated(m)'
         /\ \A u \in Users : Backed(u) => Backed(u)'
  <1>1. \A m \in Mandates : Authenticated(m) => Authenticated(m)'
    BY DEF Grows, Authenticated
  <1> QED
    BY <1>1 DEF Grows, Backed

\* A mandate that moves on, or is announced, has been authenticated.
LEMMA MandatesStep ==
  ASSUME EntitlementInv, [Next]_vars
  PROVE  LifeBacked' /\ SentBacked'
  <1>0. Grows /\ Links
    BY GrowsStep DEF EntitlementInv
  <1>1. CASE UNCHANGED <<life, sent>>
    BY <1>1 DEF EntitlementInv, LifeBacked, SentBacked, Authenticated
  <1>2. CASE ~UNCHANGED <<life, sent>>
    <2>1. \/ \E p \in Sessions : SubscribeCancelOld(p) \/ SubscribeCreate(p) \/ CancelHub(p)
          \/ \E m \in Mandates : RazorpayMoves(m) \/ RazorpayRefunds(m)
      BY <1>2 DEF Next, vars, dbVars, rzpVars, Sessions, Subscribe, Cancel, Grant, Sync, Hook, Razorpay,
           SubscribeLoad, SubscribeRefused, SubscribeCommit, CancelLoad, CancelCommit, GrantLoad,
           GrantCommit, SyncSelect, SyncLoad, SyncAccepted, SyncFailed, HookReceive, HookStatus,
           HookCharged, HookDowngrade, HookRefund, HookVerify, HookInsert, HookReport, HookNotify, Crash
    <2>2. ASSUME NEW p \in Sessions, SubscribeCreate(p) PROVE LifeBacked' /\ SentBacked'
      <3>1. PICK m \in Mandates : HubCreates(m, sess[p].user)
        BY <2>2 DEF SubscribeCreate
      <3>2. \A n \in Mandates : life'[n] \in Ongoing => life[n] \in Ongoing
        BY <1>0, <3>1 DEF HubCreates, Ongoing, Links, TypeOK
      <3> QED
        BY <2>2, <3>2 DEF SubscribeCreate, EntitlementInv, LifeBacked, SentBacked, Authenticated
    <2>3. ASSUME NEW m \in Mandates, HubCancels(m) PROVE LifeBacked' /\ SentBacked'
      <3>1. \A n \in Mandates : life'[n] \in Ongoing => life[n] \in Ongoing
        BY <1>0, <2>3 DEF HubCancels, Ongoing, Links, TypeOK
      <3>2. LifeBacked'
        BY <1>0, <3>1, AuthenticatedStays DEF EntitlementInv, LifeBacked
      <3>3. SentBacked'
        BY <1>0, <2>3, AuthenticatedStays DEF HubCancels, EntitlementInv, SentBacked, Links, TypeOK, Event
      <3> QED
        BY <3>2, <3>3
    <2>4. ASSUME NEW p \in Sessions, SubscribeCancelOld(p) \/ CancelHub(p)
          PROVE  LifeBacked' /\ SentBacked'
      <3>1. sess[p].snap.rzp \in Mandates
        BY <1>0, <2>4, LoadedTypes DEF SubscribeCancelOld, CancelHub, Links, SessionLinks, SessionLink, Row
      <3>2. HubCancels(sess[p].snap.rzp) \/ UNCHANGED <<life, sent>>
        BY <2>4 DEF SubscribeCancelOld, CancelHub, HubRefuses, HubTakesCancel
      <3> QED
        BY <1>2, <2>3, <3>1, <3>2
    <2>5. ASSUME NEW m \in Mandates, RazorpayMoves(m) PROVE LifeBacked' /\ SentBacked'
      <3>1. PICK t \in Lifecycle : \E pay \in PayOf(t.kind) : Transition(m, t, pay)
        BY <2>5 DEF RazorpayMoves
      <3>2. PICK pay : /\ sent' = sent \union {[kind |-> t.kind, m |-> m, pay |-> pay]}
                       /\ life' = [life EXCEPT ![m] = t.to] /\ life[m] = t.from
        BY <3>1 DEF Transition
      <3>3. t.kind = "authenticated" \/ (t.from \in Ongoing)
        BY DEF Lifecycle, Ongoing
      <3>4. Authenticated(m)'
        <4>1. CASE t.kind = "authenticated"
          <5>1. PICK e : e = [kind |-> t.kind, m |-> m, pay |-> pay]
            OBVIOUS
          <5>2. e \in sent' /\ e.kind = "authenticated" /\ e.m = m
            BY <3>2, <4>1, <5>1
          <5> QED
            BY <5>2 DEF Authenticated
        <4>2. CASE t.from \in Ongoing
          BY <1>0, <3>2, <4>2, AuthenticatedStays DEF EntitlementInv, LifeBacked
        <4> QED
          BY <3>3, <4>1, <4>2
      <3>5. LifeBacked'
        BY <1>0, <3>2, <3>4, AuthenticatedStays DEF EntitlementInv, LifeBacked, Links, TypeOK
      <3>6. SentBacked'
        BY <1>0, <3>2, <3>4, AuthenticatedStays DEF EntitlementInv, SentBacked, Links, TypeOK, Event
      <3> QED
        BY <3>5, <3>6
    <2>6. ASSUME NEW m \in Mandates, RazorpayRefunds(m) PROVE LifeBacked' /\ SentBacked'
      <3>1. PICK e \in sent : sent' = sent \union {[kind |-> "refunded", m |-> m, pay |-> e.pay]}
        BY <2>6 DEF RazorpayRefunds
      <3>2. LifeBacked'
        BY <1>0, <2>6, AuthenticatedStays DEF RazorpayRefunds, EntitlementInv, LifeBacked
      <3>3. SentBacked'
        BY <1>0, <3>1, AuthenticatedStays DEF EntitlementInv, SentBacked, Links, TypeOK, Event
      <3> QED
        BY <3>2, <3>3
    <2> QED
      BY <2>1, <2>2, <2>4, <2>5, <2>6
  <1> QED
    BY <1>1, <1>2

\* A complimentary plan stays one for good.
LEMMA CompedStays ==
  ASSUME [Next]_vars
  PROVE  comped \subseteq comped'
  <1>1. comped' = comped \/ \E p \in Sessions : GrantCommit(p)
    BY DEF Next, vars, Sessions, Subscribe, Cancel, Grant, Sync, Hook, Razorpay,
       SubscribeLoad, SubscribeCancelOld, SubscribeCreate, SubscribeRefused, SubscribeCommit,
       CancelLoad, CancelHub, CancelCommit, GrantLoad, SyncSelect, SyncLoad,
       SyncAccepted, SyncFailed, HookReceive, HookStatus, HookCharged, HookDowngrade, HookRefund,
       HookVerify, HookInsert, HookReport, HookNotify, Crash, RazorpayMoves, RazorpayRefunds
  <1>2. ASSUME NEW p \in Sessions, GrantCommit(p) PROVE comped \subseteq comped'
    BY <1>2 DEF GrantCommit, GrantWrite
  <1> QED
    BY <1>1, <1>2

\* The entitlement invariant is inductive.
LEMMA EntitlementStep ==
  ASSUME EntitlementInv, [Next]_vars
  PROVE  EntitlementInv'
  <1>1. Links' /\ Grows /\ (\A u \in Users : RowChange(u)) /\ comped \subseteq comped'
    BY LinksStep, GrowsStep, RowStep, CompedStays DEF EntitlementInv
  <1>2. ASSUME NEW u \in Users, row'[u] # NoRow, row'[u].status \in {"trialing", "active"},
               u \notin comped'
        PROVE  Backed(u)'
    <2>1. CASE row[u] # NoRow /\ row[u].status = row'[u].status
      BY <1>1, <1>2, <2>1, AuthenticatedStays DEF EntitlementInv, RowBacked
    <2>2. ASSUME NEW p \in Sessions, sess[p].at = "hook.commit", sess[p].user = u,
                 sess[p].ev.kind \in {"authenticated", "activated", "charged", "resumed"}
          PROVE  Backed(u)'
      <3>1. /\ sess[p].ev \in sent /\ sess[p].ev.m \in Mandates
            /\ Owned(sess[p].ev.m, u)
        BY <2>2, HookTypes DEF HookPlaces, EntitlementInv
      <3>2. Authenticated(sess[p].ev.m)
        BY <2>2, <3>1 DEF EntitlementInv, SentBacked, Authenticated
      <3>3. Backed(u)
        BY <3>1, <3>2 DEF Backed
      <3> QED
        BY <1>1, <3>3, AuthenticatedStays DEF EntitlementInv
    <2>3. CASE ByFlush(u)
      BY <1>2, <2>1, <2>2, <2>3 DEF ByFlush
    <2>4. CASE BySubscribe(u)
      BY <1>2, <2>1, <2>4 DEF BySubscribe
    <2>5. CASE ByReport(u)
      BY <1>2, <2>1, <2>5 DEF ByReport, EntitlementInv, Links, TypeOK, Row
    <2>6. ~ByGrant(u)
      BY <1>2 DEF ByGrant
    <2> QED
      BY <1>1, <1>2, <2>1, <2>3, <2>4, <2>5, <2>6 DEF RowChange
  <1> QED
    BY <1>1, <1>2, MandatesStep DEF EntitlementInv, RowBacked

\* Without a grant nobody is on the paid plan unless Razorpay authenticated a
\* mandate of his: no webhook of another user's mandate, no stale session and
\* no repeated delivery entitles anybody.
THEOREM EntitlementIsBacked == Spec => []EntitlementBacked
  <1>1. Init => EntitlementInv
    BY LinksInit DEF Init, EntitlementInv, LifeBacked, SentBacked, RowBacked, Ongoing
  <1>2. EntitlementInv /\ [Next]_vars => EntitlementInv'
    BY EntitlementStep
  <1>3. EntitlementInv => EntitlementBacked
    BY DEF EntitlementInv, EntitlementBacked, EffectivePlan, RowBacked, Backed, Owned
  <1> QED
    BY <1>1, <1>2, <1>3, PTL DEF Spec

-----------------------------------------------------------------------------
(* No resurrection after the end of a mandate *)

\* A mandate about to be written down by subscribe appears nowhere else yet.
Fresh(p) ==
  sess[p].at = "subscribe.commit" =>
    /\ sess[p].m \notin closed
    /\ \A u \in Users : row[u] # NoRow => row[u].rzp # sess[p].m
    /\ \A q \in Sessions : sess[q].snap # NoRow => sess[q].snap.rzp # sess[p].m
    /\ \A q \in Sessions \ {p} : sess[q].at = "subscribe.commit" => sess[q].m # sess[p].m

\* A webhook other than a refund was matched to the row by its mandate.
EventMatches(p) ==
  sess[p].at = "hook.commit" /\ sess[p].ev.kind # "refunded" =>
    sess[p].snap.rzp = sess[p].ev.m

\* A handler that loaded the Free plan, and so will not write it, finds the row
\* still Free when it commits, unless the row names another mandate by then.
SnapFree(p) ==
  /\ sess[p].at = "hook.commit" /\ sess[p].user \notin comped
  /\ sess[p].snap.plan = "Free" /\ row[sess[p].user].rzp = sess[p].snap.rzp
  => row[sess[p].user].plan = "Free"

\* The row of a mandate whose end was committed is on the Free plan.
ClosedFree ==
  \A u \in Users :
    row[u] # NoRow /\ row[u].rzp \in closed /\ u \notin comped => row[u].plan = "Free"

ClosedExist == \A m \in closed : life[m] # "none"

ResurrectionInv ==
  /\ Links /\ ClosedExist /\ ClosedFree
  /\ \A p \in Sessions : Fresh(p) /\ EventMatches(p) /\ SnapFree(p)

\* What a step may do to the mandate ids and rows that a session remembers.
SnapStep(p) ==
  sess'[p].snap # NoRow =>
    \/ sess'[p].snap = sess[p].snap
    \/ \E u \in Users : row[u] # NoRow /\ sess'[p].snap = row[u]
SubscribeStep(p) ==
  sess'[p].at = "subscribe.commit" =>
    \/ sess'[p] = sess[p]
    \/ /\ sess'[p].m \in Mandates /\ life[sess'[p].m] = "none"
       /\ row' = row /\ closed' = closed /\ \A q \in Sessions : sess'[q].snap = sess[q].snap
       /\ \A q \in Sessions \ {p} : sess'[q] = sess[q]
HookStep(p) ==
  sess'[p].at = "hook.commit" =>
    \/ sess'[p] = sess[p]
    \/ /\ sess'[p].user \in Users /\ sess'[p].snap = row[sess'[p].user] /\ row' = row
       /\ comped' = comped
       /\ sess'[p].ev.kind # "refunded" => sess'[p].snap.rzp = sess'[p].ev.m
\* A mandate is closed by the handler of its webhook.
CloseStep ==
  closed' # closed =>
    \E p \in Sessions : HookDowngrade(p) /\ closed' = closed \union {sess[p].ev.m}

\* How a step may change the closed mandates and any session's snapshot.
LEMMA SessionStep ==
  ASSUME Links, [Next]_vars
  PROVE  CloseStep /\ \A p \in Sessions : SnapStep(p) /\ SubscribeStep(p) /\ HookStep(p)
  <1>1. CloseStep
    BY DEF CloseStep, Next, vars, dbVars, rzpVars, Sessions, Subscribe, Cancel, Grant, Sync, Hook, Razorpay,
       SubscribeLoad, SubscribeCancelOld, SubscribeCreate, SubscribeRefused, SubscribeCommit,
       CancelLoad, CancelHub, CancelCommit, GrantLoad, GrantCommit, SyncSelect, SyncLoad,
       SyncAccepted, SyncFailed, HookReceive, HookStatus, HookCharged, HookDowngrade, HookRefund,
       HookVerify, HookInsert, HookReport, HookNotify, Crash, RazorpayMoves, RazorpayRefunds
  <1>2. ASSUME NEW p \in Sessions PROVE SnapStep(p) /\ SubscribeStep(p) /\ HookStep(p)
    <2>0. sess \in [Sessions -> SessionType] /\ row \in [Users -> Row \union {NoRow}]
      BY DEF Links, TypeOK
    <2>1. CASE sess'[p] = sess[p]
      BY <2>1 DEF SnapStep, SubscribeStep, HookStep
    <2>2. CASE sess'[p] = Idle
      BY <2>2 DEF SnapStep, SubscribeStep, HookStep, Idle
    <2>3. CASE sess'[p] # sess[p] /\ sess'[p] # Idle
      <3>1. Goes(p)
        BY <2>3, ActingSession
      <3>2. ASSUME NEW u \in Users,
                   SubscribeLoad(p, u) \/ CancelLoad(p, u) \/ GrantLoad(p, u) \/ SyncSelect(p, u)
            PROVE  SnapStep(p) /\ SubscribeStep(p) /\ HookStep(p)
        <4>1. CASE SubscribeLoad(p, u)
          BY <2>0, <4>1 DEF SubscribeLoad, Idle, SnapStep, SubscribeStep, HookStep
        <4>2. CASE CancelLoad(p, u)
          BY <2>0, <4>2 DEF CancelLoad, Idle, SnapStep, SubscribeStep, HookStep
        <4>3. CASE GrantLoad(p, u)
          BY <2>0, <4>3 DEF GrantLoad, Idle, SnapStep, SubscribeStep, HookStep
        <4>4. CASE SyncSelect(p, u)
          BY <2>0, <4>4 DEF SyncSelect, Idle, SnapStep, SubscribeStep, HookStep
        <4> QED
          BY <3>2, <4>1, <4>2, <4>3, <4>4
      <3>3. ASSUME NEW place \in Places \ {"subscribe.commit", "hook.commit"}, Goto(p, place)
            PROVE  SnapStep(p) /\ SubscribeStep(p) /\ HookStep(p)
        <4>1. sess'[p].at = place /\ sess'[p].snap = sess[p].snap
          BY <2>0, <3>3 DEF Goto, SessionType
        <4> QED
          BY <3>3, <4>1 DEF SnapStep, SubscribeStep, HookStep
      <3>4. ASSUME \/ SubscribeCancelOld(p) \/ CancelHub(p)
                   \/ HookStatus(p) \/ HookCharged(p) \/ HookDowngrade(p) \/ HookRefund(p)
                   \/ HookVerify(p) \/ HookInsert(p) \/ HookReport(p)
            PROVE  SnapStep(p) /\ SubscribeStep(p) /\ HookStep(p)
        <4>1. \E place \in Places \ {"subscribe.commit", "hook.commit"} : Goto(p, place)
          BY <2>0, <2>3, <3>4 DEF SubscribeCancelOld, CancelHub, HookStatus, HookCharged,
               HookDowngrade, HookRefund, HookVerify, HookInsert, HookReport, Finish, Places
        <4> QED
          BY <3>3, <4>1
      <3>5. ASSUME SubscribeCreate(p) PROVE SnapStep(p) /\ SubscribeStep(p) /\ HookStep(p)
        <4>1. PICK m \in Mandates :
                /\ HubCreates(m, sess[p].user) /\ row' = row /\ closed' = closed
                /\ sess' = [sess EXCEPT ![p].at = "subscribe.commit", ![p].m = m]
          BY <2>0, <2>3, <3>5 DEF SubscribeCreate, Finish, dbVars
        <4>2. /\ sess'[p].at = "subscribe.commit" /\ sess'[p].m = m /\ life[m] = "none"
              /\ \A q \in Sessions : sess'[q].snap = sess[q].snap
              /\ \A q \in Sessions \ {p} : sess'[q] = sess[q]
          BY <2>0, <4>1 DEF SessionType, HubCreates
        <4> QED
          BY <4>1, <4>2 DEF SnapStep, SubscribeStep, HookStep
      <3>6. ASSUME SyncLoad(p) PROVE SnapStep(p) /\ SubscribeStep(p) /\ HookStep(p)
        <4>1. PICK loaded \in {sess[p].snap, row[sess[p].user]} :
                /\ sess[p].at = "sync.load" /\ sess[p].user \in Users
                /\ sess' = [sess EXCEPT ![p].at = "sync.report", ![p].snap = loaded]
          BY <2>0, <2>3, <3>6 DEF SyncLoad, Finish, Links, SessionLinks, SessionLink
        <4>2. sess'[p].at = "sync.report" /\ sess'[p].snap = loaded
          BY <2>0, <4>1 DEF SessionType
        <4> QED
          BY <4>1, <4>2 DEF SnapStep, SubscribeStep, HookStep
      <3>7. ASSUME NEW e \in sent, HookReceive(p, e)
            PROVE  SnapStep(p) /\ SubscribeStep(p) /\ HookStep(p)
        <4>1. PICK u \in Users :
                /\ e.kind # "refunded" => row[u] # NoRow /\ row[u].rzp = e.m
                /\ sess'[p].at = "hook.commit" /\ sess'[p].user = u
                /\ sess'[p].snap = row[u] /\ sess'[p].ev = e
                /\ row' = row /\ comped' = comped
          BY <2>0, <3>7 DEF HookReceive, dbVars
        <4> QED
          BY <4>1 DEF SnapStep, SubscribeStep, HookStep
      <3> QED
        BY <3>1, <3>2, <3>4, <3>5, <3>6, <3>7 DEF Goes
    <2> QED
      BY <2>1, <2>2, <2>3
  <1> QED
    BY <1>1, <1>2

\* The handler that closes a mandate holds a row that names it.
LEMMA ClosedBy ==
  ASSUME ResurrectionInv, [Next]_vars
  PROVE  /\ closed \subseteq closed'
         /\ \A m \in closed' \ closed :
              \E p \in Sessions : /\ HookDowngrade(p) /\ sess[p].at = "hook.commit"
                                  /\ sess[p].ev.m = m /\ Owned(m, sess[p].user)
                                  /\ sess[p].snap \in Row /\ sess[p].snap.rzp = m
  <1>1. CloseStep
    BY SessionStep DEF ResurrectionInv
  <1>2. ASSUME NEW p \in Sessions, HookDowngrade(p)
        PROVE  /\ sess[p].at = "hook.commit" /\ Owned(sess[p].ev.m, sess[p].user)
               /\ sess[p].snap \in Row /\ sess[p].snap.rzp = sess[p].ev.m
    <2>1. sess[p].at = "hook.commit" /\ sess[p].ev.kind # "refunded"
      BY <1>2 DEF HookDowngrade
    <2> QED
      BY <2>1, HookTypes DEF HookPlaces, ResurrectionInv, EventMatches
  <1> QED
    BY <1>1, <1>2 DEF CloseStep

\* A mandate about to be written down stays unknown to everybody else.
LEMMA FreshStep ==
  ASSUME ResurrectionInv, [Next]_vars, NEW p \in Sessions
  PROVE  Fresh(p)'
  <1>0. Links /\ Grows /\ (\A u \in Users : RowChange(u))
        /\ \A q \in Sessions : SnapStep(q) /\ SubscribeStep(q)
    BY GrowsStep, RowStep, SessionStep DEF ResurrectionInv
  <1>1. SUFFICES ASSUME sess'[p].at = "subscribe.commit"
        PROVE  /\ sess'[p].m \notin closed'
               /\ \A u \in Users : row'[u] # NoRow => row'[u].rzp # sess'[p].m
               /\ \A q \in Sessions : sess'[q].snap # NoRow => sess'[q].snap.rzp # sess'[p].m
               /\ \A q \in Sessions \ {p} : sess'[q].at = "subscribe.commit" => sess'[q].m # sess'[p].m
    BY DEF Fresh
  <1>2. CASE sess'[p] # sess[p]
    <2>1. PICK m \in Mandates :
            /\ m = sess'[p].m /\ life[m] = "none" /\ row' = row /\ closed' = closed
            /\ \A q \in Sessions : sess'[q].snap = sess[q].snap
            /\ \A q \in Sessions \ {p} : sess'[q] = sess[q]
      BY <1>0, <1>1, <1>2 DEF SubscribeStep
    <2>2. m \notin closed
      BY <2>1 DEF ResurrectionInv, ClosedExist
    <2>3. \A u \in Users : row[u] # NoRow => row[u].rzp # m
      BY <1>0, <2>1, BillingAssumption DEF Links, RowLinks, Owned
    <2>4. \A q \in Sessions : sess[q].snap # NoRow => sess[q].snap.rzp # m
      BY <1>0, <2>1, BillingAssumption DEF Links, SessionLinks, SessionLink, Owned
    <2>5. \A q \in Sessions : sess[q].at = "subscribe.commit" => sess[q].m # m
      BY <1>0, <2>1 DEF Links, SessionLinks, SessionLink, Owned
    <2> QED
      BY <2>1, <2>2, <2>3, <2>4, <2>5
  <1>3. CASE sess'[p] = sess[p]
    <2>1. PICK m \in Mandates : m = sess[p].m
      BY <1>0, <1>1, <1>3 DEF Links, SessionLinks, SessionLink
    <2>2. /\ m \notin closed
          /\ \A u \in Users : row[u] # NoRow => row[u].rzp # m
          /\ \A q \in Sessions : sess[q].snap # NoRow => sess[q].snap.rzp # m
          /\ \A q \in Sessions \ {p} : sess[q].at = "subscribe.commit" => sess[q].m # m
      BY <1>1, <1>3, <2>1 DEF ResurrectionInv, Fresh
    <2>3. m \notin closed'
      BY <2>2, ClosedBy, BillingAssumption DEF Row
    <2>4. ASSUME NEW u \in Users, row'[u] # NoRow PROVE row'[u].rzp # m
      <3>1. CASE BySubscribe(u)
        <4>1. PICK q \in Sessions : /\ sess[q].at = "subscribe.commit" /\ row'[u].rzp = sess[q].m
                                    /\ sess'[q] = Idle
          BY <3>1 DEF BySubscribe
        <4>2. q # p
          BY <1>1, <4>1 DEF Idle
        <4> QED
          BY <2>2, <4>1, <4>2
      <3>2. CASE row'[u].rzp = NoMandate
        BY <3>2, BillingAssumption
      <3>3. CASE row[u] # NoRow /\ row'[u].rzp = row[u].rzp
        BY <2>2, <3>3
      <3>4. CASE ByReport(u)
        BY <1>0, <2>2, <3>4 DEF ByReport, Links, TypeOK, Row
      <3> QED
        BY <1>0, <2>4, <3>1, <3>2, <3>3, <3>4 DEF RowChange, ByGrant, ByFlush
    <2>5. \A q \in Sessions : sess'[q].snap # NoRow => sess'[q].snap.rzp # m
      BY <1>0, <2>2 DEF SnapStep
    <2>6. ASSUME NEW q \in Sessions \ {p}, sess'[q].at = "subscribe.commit" PROVE sess'[q].m # m
      <3>1. CASE sess'[q] = sess[q]
        BY <2>2, <2>6, <3>1
      <3>2. CASE sess'[q] # sess[q]
        <4>1. life[sess'[q].m] = "none"
          BY <1>0, <2>6, <3>2 DEF SubscribeStep
        <4>2. life[m] # "none"
          BY <1>0, <1>1, <1>3, <2>1 DEF Links, SessionLinks, SessionLink, Owned
        <4> QED
          BY <4>1, <4>2
      <3> QED
        BY <3>1, <3>2
    <2> QED
      BY <1>3, <2>1, <2>3, <2>4, <2>5, <2>6
  <1> QED
    BY <1>2, <1>3

\* A webhook keeps the event it was given for the row it loaded.
LEMMA EventMatchesStep ==
  ASSUME ResurrectionInv, [Next]_vars, NEW p \in Sessions
  PROVE  EventMatches(p)'
  BY SessionStep DEF ResurrectionInv, HookStep, EventMatches

\* The Free plan a handler has loaded is still there when it commits.
LEMMA SnapFreeStep ==
  ASSUME ResurrectionInv, [Next]_vars, NEW p \in Sessions
  PROVE  SnapFree(p)'
  <1>0. Links /\ Links' /\ (\A u \in Users : RowChange(u)) /\ HookStep(p) /\ comped \subseteq comped'
    BY LinksStep, RowStep, SessionStep, CompedStays DEF ResurrectionInv
  <1>1. SUFFICES ASSUME sess'[p].at = "hook.commit", sess'[p].user \notin comped',
                        sess'[p].snap.plan = "Free",
                        row'[sess'[p].user].rzp = sess'[p].snap.rzp
                 PROVE  row'[sess'[p].user].plan = "Free"
    BY DEF SnapFree
  <1>2. CASE sess'[p] # sess[p]
    BY <1>0, <1>1, <1>2 DEF HookStep
  <1>3. CASE sess'[p] = sess[p]
    <2>1. PICK u \in Users : u = sess[p].user /\ row[u] \in Row /\ sess[p].snap \in Row
      BY <1>0, <1>1, <1>3, HookTypes DEF HookPlaces
    <2>2. CASE row'[u].rzp = row[u].rzp /\ row'[u].plan \in {row[u].plan, "Free"}
      BY <1>0, <1>1, <1>3, <2>1, <2>2 DEF ResurrectionInv, SnapFree
    <2>3. CASE BySubscribe(u)
      <3>1. PICK q \in Sessions : sess[q].at = "subscribe.commit" /\ row'[u].rzp = sess[q].m
        BY <2>3 DEF BySubscribe
      <3>2. Fresh(q) /\ sess[p].snap # NoRow
        BY <2>1, BillingAssumption DEF ResurrectionInv
      <3>3. sess[p].snap.rzp # sess[q].m
        BY <3>1, <3>2 DEF Fresh
      <3> QED
        BY <1>1, <1>3, <2>1, <3>1, <3>3
    <2>4. ~ByGrant(u)
      BY <1>1, <1>3, <2>1 DEF ByGrant
    <2>5. CASE ByReport(u)
      <3>1. row'[u].rzp = row[u].rzp /\ row'[u].plan = row[u].plan
        BY <2>1, <2>5 DEF ByReport, Row
      <3> QED
        BY <2>2, <3>1
    <2>6. CASE ByFlush(u)
      BY <2>2, <2>6 DEF ByFlush
    <2> QED
      BY <1>0, <2>2, <2>3, <2>4, <2>5, <2>6 DEF RowChange
  <1> QED
    BY <1>2, <1>3

\* The commit of a downgrade leaves the row of its mandate on the Free plan.
LEMMA DowngradeFrees ==
  ASSUME ResurrectionInv, NEW p \in Sessions, HookDowngrade(p), NEW u \in Users,
         u = sess[p].user, u \notin comped, row'[u].rzp = sess[p].ev.m
  PROVE  row'[u].plan = "Free"
  <1>1. /\ sess[p].at = "hook.commit" /\ sess[p].snap \in Row /\ sess[p].snap # NoRow
        /\ sess[p].snap.rzp = sess[p].ev.m /\ sess[p].ev.kind \in {"halted", "cancelled"}
    <2>1. sess[p].at = "hook.commit" /\ sess[p].ev.kind \in {"halted", "cancelled"}
      BY DEF HookDowngrade
    <2> QED
      BY <2>1, HookTypes, BillingAssumption DEF HookPlaces, ResurrectionInv, EventMatches
  <1> DEFINE new == [sess[p].snap EXCEPT !.status = StatusFor(sess[p].ev.kind), !.plan = "Free"]
  <1>2. /\ new \in Row /\ new.plan = "Free" /\ new.rzp = sess[p].snap.rzp
        /\ new.synced = sess[p].snap.synced /\ FlushRow(p, new)
    <2>1. StatusFor(sess[p].ev.kind) \in Statuses /\ "Free" \in Plans
      BY DEF StatusFor, Statuses, Plans
    <2> QED
      BY <1>1, <2>1 DEF HookDowngrade, Row
  <1> HIDE DEF new
  <1>3. /\ row'[u].plan = Net(row[u].plan, sess[p].snap.plan, "Free")
        /\ row'[u].rzp = row[u].rzp
    BY <1>1, <1>2, FlushKeeps DEF ResurrectionInv
  <1>4. CASE sess[p].snap.plan = "Free"
    BY <1>1, <1>3, <1>4 DEF ResurrectionInv, SnapFree, Net
  <1> QED
    BY <1>3, <1>4 DEF Net

\* No mandate ceases to exist.
LEMMA LifeStays ==
  ASSUME Links, [Next]_vars, NEW m \in Mandates, life[m] # "none"
  PROVE  life'[m] # "none"
  <1>1. CASE life' = life
    BY <1>1
  <1>2. CASE life' # life
    <2>1. \/ \E p \in Sessions : SubscribeCancelOld(p) \/ SubscribeCreate(p) \/ CancelHub(p)
          \/ \E n \in Mandates : RazorpayMoves(n)
      BY <1>2 DEF Next, vars, dbVars, rzpVars, Sessions, Subscribe, Cancel, Grant, Sync, Hook, Razorpay,
           SubscribeLoad, SubscribeRefused, SubscribeCommit, CancelLoad, CancelCommit, GrantLoad,
           GrantCommit, SyncSelect, SyncLoad, SyncAccepted, SyncFailed, HookReceive, HookStatus,
           HookCharged, HookDowngrade, HookRefund, HookVerify, HookInsert, HookReport, HookNotify,
           Crash, RazorpayRefunds
    <2>2. \E n \in Mandates, s \in {"created", "cancelled"} \union {t.to : t \in Lifecycle} :
            life' = [life EXCEPT ![n] = s]
      <3>1. ASSUME NEW p \in Sessions, SubscribeCancelOld(p) \/ CancelHub(p)
            PROVE  sess[p].snap.rzp \in Mandates /\ HubCancels(sess[p].snap.rzp)
        BY <1>2, <3>1, LoadedTypes DEF SubscribeCancelOld, CancelHub, Links, SessionLinks,
             SessionLink, Row, HubRefuses, HubTakesCancel
      <3> QED
        BY <2>1, <3>1 DEF HubCancels, SubscribeCreate, HubCreates, RazorpayMoves, Transition
    <2>3. \A t \in Lifecycle : t.to # "none"
      BY DEF Lifecycle
    <2> QED
      BY <2>2, <2>3 DEF Links, TypeOK
  <1> QED
    BY <1>1, <1>2

\* The row of a closed mandate stays on the Free plan.
LEMMA ClosedFreeStep ==
  ASSUME ResurrectionInv, [Next]_vars
  PROVE  ClosedFree' /\ ClosedExist'
  <1>0. Links /\ Links' /\ Grows /\ (\A u \in Users : RowChange(u)) /\ comped \subseteq comped'
    BY LinksStep, GrowsStep, RowStep, CompedStays DEF ResurrectionInv
  <1>1. ClosedExist'
    <2>1. \A m \in closed : life'[m] # "none"
      <3>1. SUFFICES ASSUME NEW m \in closed PROVE life'[m] # "none"
        OBVIOUS
      <3>2. m \in Mandates /\ life[m] # "none"
        BY DEF ResurrectionInv, ClosedExist, Links, TypeOK
      <3> QED
        BY <1>0, <3>2, LifeStays DEF ResurrectionInv
    <2>2. \A m \in closed' \ closed : life'[m] # "none"
      <3>1. SUFFICES ASSUME NEW m \in closed' \ closed PROVE life'[m] # "none"
        OBVIOUS
      <3>2. m \in Mandates /\ life[m] # "none"
        BY <1>0, <3>1, ClosedBy DEF Owned, Links, TypeOK
      <3> QED
        BY <1>0, <3>2, LifeStays DEF ResurrectionInv
    <2> QED
      BY <2>1, <2>2 DEF ClosedExist
  <1>2. ASSUME NEW u \in Users, row'[u] # NoRow, row'[u].rzp \in closed', u \notin comped'
        PROVE  row'[u].plan = "Free"
    <2>1. CASE row'[u].rzp \in closed
      <3>1. CASE row[u] # NoRow /\ row'[u].rzp = row[u].rzp /\ row'[u].plan \in {row[u].plan, "Free"}
        BY <1>0, <1>2, <2>1, <3>1 DEF ResurrectionInv, ClosedFree
      <3>2. ~BySubscribe(u)
        BY <2>1 DEF BySubscribe, ResurrectionInv, Fresh
      <3>3. ~ByGrant(u)
        BY <1>2 DEF ByGrant
      <3>4. CASE ByReport(u)
        <4>1. row[u] \in Row
          BY <1>0, <3>4 DEF ByReport, Links, TypeOK
        <4>2. row'[u].rzp = row[u].rzp /\ row'[u].plan = row[u].plan /\ row[u] # NoRow
          BY <3>4, <4>1 DEF ByReport, Row
        <4> QED
          BY <3>1, <4>2
      <3>5. CASE ByFlush(u)
        BY <3>1, <3>5 DEF ByFlush
      <3> QED
        BY <1>0, <1>2, <3>1, <3>2, <3>3, <3>4, <3>5 DEF RowChange
    <2>2. CASE row'[u].rzp \notin closed
      <3>1. PICK m \in Mandates : m = row'[u].rzp /\ m \in closed' \ closed
        BY <1>0, <1>2, <2>2 DEF Links, TypeOK
      <3>2. PICK p \in Sessions : /\ HookDowngrade(p) /\ sess[p].ev.m = m
                                  /\ Owned(m, sess[p].user) /\ sess[p].at = "hook.commit"
        BY <3>1, ClosedBy
      <3>3. sess[p].user \in Users
        BY <1>0, <3>2 DEF Links, SessionLinks, SessionLink
      <3>4. owner'[m] = sess[p].user
        BY <1>0, <3>2, <3>3 DEF Grows, Owned
      <3>5. owner'[m] = u
        BY <1>0, <1>2, <3>1, BillingAssumption DEF Links, RowLinks, Owned
      <3>6. u \notin comped
        BY <1>0, <1>2
      <3> QED
        BY <3>1, <3>2, <3>4, <3>5, <3>6, DowngradeFrees
    <2> QED
      BY <2>1, <2>2
  <1> QED
    BY <1>1, <1>2 DEF ClosedFree

\* Once the end of a mandate was committed, no webhook about it, late, repeated
\* or handled concurrently, and no request that was already running, puts the
\* user back on the paid plan while the row still names that mandate.
THEOREM NoResurrectionHolds == Spec => []NoResurrection
  <1>1. Init => ResurrectionInv
    BY LinksInit DEF Init, ResurrectionInv, ClosedExist, ClosedFree, Fresh, EventMatches, SnapFree, Idle
  <1>2. ResurrectionInv /\ [Next]_vars => ResurrectionInv'
    BY LinksStep, FreshStep, EventMatchesStep, SnapFreeStep, ClosedFreeStep DEF ResurrectionInv
  <1>3. ResurrectionInv => NoResurrection
    BY DEF ResurrectionInv, ClosedFree, NoResurrection, EffectivePlan
  <1> QED
    BY <1>1, <1>2, <1>3, PTL DEF Spec

-----------------------------------------------------------------------------
(* One mandate to debit, where one thread serves the users *)

\* The mandates that are not over, or may still be authenticated.
Open == {"created"} \union Ongoing
SubscribePlaces == {"subscribe.cancelOld", "subscribe.create", "subscribe.commit"}

\* A request to subscribe has the row before it that it loaded, and before it
\* makes a new mandate the old one is over.
SubscribeOK(p) ==
  sess[p].at \in SubscribePlaces =>
    /\ p \in Web
    /\ sess[p].snap # NoRow =>
         /\ row[sess[p].user].rzp = sess[p].snap.rzp
         /\ sess[p].at # "subscribe.cancelOld" /\ sess[p].snap.rzp # NoMandate =>
              life[sess[p].snap.rzp] \notin Open

\* Only a mandate whose id was told goes on.
ToldFirst ==
  \A m \in Mandates : /\ life[m] \in Ongoing => m \in told
                      /\ m \in told => owner[m] \in Users /\ life[m] # "none"

\* A mandate that was told and is not over is the one in its owner's row.
NamedInRow ==
  \A m \in told : life[m] \in Open => row[owner[m]] # NoRow /\ row[owner[m]].rzp = m

MandateInv == Links /\ ToldFirst /\ NamedInRow /\ \A p \in Sessions : SubscribeOK(p)

\* A mandate opens by being created, goes on once it was told, and is cancelled
\* for good.
LEMMA LifeMoves ==
  ASSUME Links, [Next]_vars, NEW m \in Mandates
  PROVE  /\ life'[m] \in Open => life[m] \in Open \union {"none"}
         /\ life'[m] \in Ongoing => life[m] \in Ongoing \/ m \in told
         /\ life[m] = "cancelled" => life'[m] = "cancelled"
  <1>0. life \in [Mandates -> LifeStates]
    BY DEF Links, TypeOK
  <1>1. CASE life' = life
    BY <1>1
  <1>2. CASE life' # life
    <2>1. \/ \E p \in Sessions : SubscribeCancelOld(p) \/ SubscribeCreate(p) \/ CancelHub(p)
          \/ \E n \in Mandates : RazorpayMoves(n)
      BY <1>2 DEF Next, vars, dbVars, rzpVars, Sessions, Subscribe, Cancel, Grant, Sync, Hook, Razorpay,
           SubscribeLoad, SubscribeRefused, SubscribeCommit, CancelLoad, CancelCommit, GrantLoad,
           GrantCommit, SyncSelect, SyncLoad, SyncAccepted, SyncFailed, HookReceive, HookStatus,
           HookCharged, HookDowngrade, HookRefund, HookVerify, HookInsert, HookReport, HookNotify,
           Crash, RazorpayRefunds
    <2>2. CASE \E p \in Sessions : SubscribeCancelOld(p) \/ CancelHub(p)
      <3>1. PICK n \in Mandates : HubCancels(n)
        BY <1>2, <2>2, LoadedTypes DEF SubscribeCancelOld, CancelHub, Links, SessionLinks,
           SessionLink, Row, HubRefuses, HubTakesCancel
      <3> QED
        BY <1>0, <3>1 DEF HubCancels, Open, Ongoing
    <2>3. CASE \E p \in Sessions : SubscribeCreate(p)
      <3>1. PICK n \in Mandates : life[n] = "none" /\ life' = [life EXCEPT ![n] = "created"]
        BY <2>3 DEF SubscribeCreate, HubCreates
      <3> QED
        BY <1>0, <3>1 DEF Open, Ongoing
    <2>4. CASE \E n \in Mandates : RazorpayMoves(n)
      <3>1. PICK n \in Mandates, t \in Lifecycle :
              /\ life[n] = t.from /\ life' = [life EXCEPT ![n] = t.to]
              /\ t.kind = "authenticated" => n \in told
        BY <2>4 DEF RazorpayMoves, Transition
      <3>2. /\ t.from \in Open
            /\ t.kind = "authenticated" \/ t.from \in Ongoing
        BY DEF Lifecycle, Open, Ongoing
      <3>3. t.from # "cancelled"
        BY <3>2 DEF Open, Ongoing
      <3> QED
        BY <1>0, <3>1, <3>2, <3>3 DEF Open
    <2> QED
      BY <2>1, <2>2, <2>3, <2>4
  <1> QED
    BY <1>1, <1>2

\* Only the thread that serves the users subscribes.
LEMMA SubscribeSteps ==
  ASSUME Links, [Next]_vars, NEW p \in Sessions, sess'[p] # sess[p],
         sess'[p].at \in SubscribePlaces
  PROVE  /\ p \in Web
         /\ (\E u \in Users : SubscribeLoad(p, u)) \/ SubscribeCancelOld(p) \/ SubscribeCreate(p)
  <1>0. sess \in [Sessions -> SessionType]
    BY DEF Links, TypeOK
  <1>1. PICK q \in Sessions : \/ q \in Web /\ (Subscribe(q) \/ Cancel(q) \/ Grant(q))
                              \/ Hook(q) \/ Sync(q) \/ Crash(q)
    BY DEF Next, vars, Sessions, Razorpay, RazorpayMoves, RazorpayRefunds
  <1>2. \E s : sess' = [sess EXCEPT ![q] = s]
    BY <1>1 DEF Subscribe, Cancel, Grant, Hook, Sync, Crash,
         SubscribeLoad, CancelLoad, GrantLoad, SyncSelect, SubscribeCancelOld,
         SubscribeCreate, SubscribeRefused, SubscribeCommit, CancelHub, CancelCommit, GrantCommit,
         SyncLoad, SyncAccepted, SyncFailed, HookReceive, HookStatus, HookCharged,
         HookDowngrade, HookRefund, HookVerify, HookInsert, HookReport, HookNotify, Goto, Finish
  <1>3. q = p /\ sess'[p] # Idle
    BY <1>0, <1>2 DEF Idle, SubscribePlaces
  <1>4. ~ Cancel(p) /\ ~ Grant(p)
    <2>1. ASSUME NEW u \in Users PROVE ~ CancelLoad(p, u) /\ ~ GrantLoad(p, u)
      BY <1>0 DEF CancelLoad, GrantLoad, Idle, SubscribePlaces
    <2>2. ~ CancelHub(p) /\ ~ CancelCommit(p) /\ ~ GrantCommit(p)
      BY <1>0, <1>3 DEF CancelHub, CancelCommit, GrantCommit, Goto, Finish, SubscribePlaces, SessionType
    <2> QED
      BY <2>1, <2>2 DEF Cancel, Grant
  <1>5. ~ Sync(p) /\ ~ Crash(p)
    <2>1. ASSUME NEW u \in Users PROVE ~ SyncSelect(p, u)
      BY <1>0 DEF SyncSelect, Idle, SubscribePlaces
    <2>2. ~ SyncLoad(p)
      <3>1. ASSUME NEW loaded, sess' = [sess EXCEPT ![p].at = "sync.report", ![p].snap = loaded]
            PROVE  sess'[p].at = "sync.report"
        BY <1>0, <3>1 DEF SessionType
      <3> QED
        BY <1>3, <3>1 DEF SyncLoad, Finish, SubscribePlaces
    <2>3. ~ SyncAccepted(p) /\ ~ SyncFailed(p) /\ ~ Crash(p)
      BY <1>0, <1>3 DEF SyncAccepted, SyncFailed, Crash, Finish
    <2> QED
      BY <2>1, <2>2, <2>3 DEF Sync
  <1>6. ~ Hook(p)
    BY <1>0, <1>3 DEF Hook, HookReceive, HookStatus, HookCharged, HookDowngrade, HookRefund,
         HookVerify, HookInsert, HookReport, HookNotify, Goto, Finish, SubscribePlaces, SessionType
  <1> QED
    BY <1>0, <1>1, <1>3, <1>4, <1>5, <1>6 DEF Subscribe, SubscribeRefused, SubscribeCommit, Finish

\* Who was about to write a new mandate down and goes on has written it, or died.
LEMMA CommitSteps ==
  ASSUME Links, [Next]_vars, NEW p \in Sessions, sess'[p] # sess[p],
         sess[p].at = "subscribe.commit"
  PROVE  SubscribeCommit(p) \/ UNCHANGED <<row, told>>
  <1>0. sess \in [Sessions -> SessionType]
    BY DEF Links, TypeOK
  <1>1. PICK q \in Sessions : Subscribe(q) \/ Cancel(q) \/ Grant(q) \/ Hook(q) \/ Sync(q) \/ Crash(q)
    BY DEF Next, vars, Sessions, Razorpay, RazorpayMoves, RazorpayRefunds
  <1>2. \E s : sess' = [sess EXCEPT ![q] = s]
    BY <1>1 DEF Subscribe, Cancel, Grant, Hook, Sync, Crash,
         SubscribeLoad, CancelLoad, GrantLoad, SyncSelect, SubscribeCancelOld,
         SubscribeCreate, SubscribeRefused, SubscribeCommit, CancelHub, CancelCommit, GrantCommit,
         SyncLoad, SyncAccepted, SyncFailed, HookReceive, HookStatus, HookCharged,
         HookDowngrade, HookRefund, HookVerify, HookInsert, HookReport, HookNotify, Goto, Finish
  <1>3. q = p
    BY <1>0, <1>2
  <1> QED
    BY <1>1, <1>3 DEF Subscribe, Cancel, Grant, Hook, Sync, Crash,
         SubscribeLoad, CancelLoad, GrantLoad, SyncSelect, SubscribeCancelOld,
         SubscribeCreate, SubscribeRefused, CancelHub, CancelCommit, GrantCommit,
         SyncLoad, SyncAccepted, SyncFailed, HookReceive, HookStatus, HookCharged,
         HookDowngrade, HookRefund, HookVerify, HookInsert, HookReport, HookNotify, dbVars, rzpVars

\* A row comes to name another mandate, and an id is told, by a commit of subscribe.
LEMMA NamesStep ==
  ASSUME Links, [Next]_vars
  PROVE  /\ told \subseteq told'
         /\ told' # told => \E p \in Sessions : SubscribeCommit(p)
         /\ \A u \in Users : row[u] # NoRow /\ row'[u].rzp # row[u].rzp =>
              \E p \in Sessions : /\ SubscribeCommit(p) /\ sess[p].user = u
                                  /\ sess[p].snap # NoRow /\ row'[u].rzp = sess[p].m
  <1>1. told' # told => \E p \in Sessions : SubscribeCommit(p)
    BY DEF Next, vars, dbVars, rzpVars, Sessions, Subscribe, Cancel, Grant, Sync, Hook, Razorpay,
       SubscribeLoad, SubscribeCancelOld, SubscribeCreate, SubscribeRefused,
       CancelLoad, CancelHub, CancelCommit, GrantLoad, GrantCommit, SyncSelect, SyncLoad,
       SyncAccepted, SyncFailed, HookReceive, HookStatus, HookCharged, HookDowngrade, HookRefund,
       HookVerify, HookInsert, HookReport, HookNotify, Crash, RazorpayMoves, RazorpayRefunds
  <1>2. told \subseteq told'
    BY <1>1 DEF SubscribeCommit
  <1>3. ASSUME NEW u \in Users, row[u] # NoRow, row'[u].rzp # row[u].rzp
        PROVE  \E p \in Sessions : /\ SubscribeCommit(p) /\ sess[p].user = u
                                   /\ sess[p].snap # NoRow /\ row'[u].rzp = sess[p].m
    <2>1. BySubscribe(u)
      <3>1. ByReport(u) => row'[u].rzp = row[u].rzp
        BY <1>3 DEF ByReport, Links, TypeOK, Row
      <3> QED
        BY <1>3, <3>1, RowStep DEF RowChange, ByGrant, ByFlush
    <2>2. PICK p \in Sessions : /\ sess[p].at = "subscribe.commit" /\ sess[p].user = u
                                /\ row'[u].rzp = sess[p].m /\ sess'[p] = Idle
      BY <2>1 DEF BySubscribe
    <2>3. SubscribeCommit(p)
      BY <1>3, <2>2, CommitSteps DEF Idle
    <2>4. sess[p].snap # NoRow
      BY <1>3, <2>2, <2>3 DEF SubscribeCommit
    <2> QED
      BY <2>2, <2>3, <2>4
  <1> QED
    BY <1>1, <1>2, <1>3

\* The state of the request goes on being what it was loaded for.
LEMMA SubscribeOKStep ==
  ASSUME MandateInv, [Next]_vars, \A p, q \in Web : p = q, "refuse" \notin HubFaults,
         NEW p \in Sessions
  PROVE  SubscribeOK(p)'
  <1>0. /\ sess \in [Sessions -> SessionType] /\ row \in [Users -> Row \union {NoRow}]
        /\ life \in [Mandates -> LifeStates] /\ Links /\ SubscribeOK(p) /\ SessionLink(p)
    BY DEF MandateInv, Links, TypeOK, SessionLinks
  <1>1. SUFFICES ASSUME sess'[p].at \in SubscribePlaces
                 PROVE  /\ p \in Web
                        /\ sess'[p].snap # NoRow =>
                             /\ row'[sess'[p].user].rzp = sess'[p].snap.rzp
                             /\ sess'[p].at # "subscribe.cancelOld" /\ sess'[p].snap.rzp # NoMandate =>
                                  life'[sess'[p].snap.rzp] \notin Open
    BY DEF SubscribeOK
  \* A mandate that is over stays so.
  <1>2. ASSUME NEW m \in Mandates, life[m] \notin Open \union {"none"}
        PROVE  life'[m] \notin Open
    BY <1>0, <1>2, LifeMoves
  <1>3. CASE sess'[p] = sess[p]
    <2>1. p \in Web
      BY <1>0, <1>1, <1>3 DEF SubscribeOK
    <2>2. ASSUME sess[p].snap # NoRow
          PROVE  row'[sess[p].user].rzp = row[sess[p].user].rzp
      <3>1. PICK u \in Users : u = sess[p].user /\ row[u] # NoRow
        BY <1>0, <2>2 DEF SessionLink
      <3>2. ASSUME NEW q \in Sessions, SubscribeCommit(q)
            PROVE  FALSE
        <4>1. SubscribeOK(q) /\ sess[q].at = "subscribe.commit" /\ sess'[q] = Idle
          BY <1>0, <3>2 DEF MandateInv, SubscribeCommit, Finish
        <4>2. q = p
          BY <2>1, <4>1 DEF SubscribeOK, SubscribePlaces
        <4> QED
          BY <1>3, <4>1, <4>2 DEF Idle
      <3> QED
        BY <1>0, <3>1, <3>2, NamesStep
    <2>3. ASSUME sess[p].snap # NoRow, sess[p].snap.rzp # NoMandate
          PROVE  sess[p].snap.rzp \in Mandates /\ life[sess[p].snap.rzp] # "none"
      BY <1>0, <2>3 DEF SessionLink, Owned, SessionType, Row
    <2> QED
      BY <1>0, <1>1, <1>2, <1>3, <2>1, <2>2, <2>3 DEF SubscribeOK
  <1>4. CASE sess'[p] # sess[p]
    <2>1. /\ p \in Web
          /\ (\E u \in Users : SubscribeLoad(p, u)) \/ SubscribeCancelOld(p) \/ SubscribeCreate(p)
      BY <1>0, <1>1, <1>4, SubscribeSteps
    <2>2. ASSUME NEW u \in Users, SubscribeLoad(p, u)
          PROVE  /\ sess'[p].user = u /\ sess'[p].snap = row[u] /\ row' = row
                 /\ row[u] # NoRow /\ row[u].rzp # NoMandate => sess'[p].at = "subscribe.cancelOld"
      BY <1>0, <2>2 DEF SubscribeLoad, Idle, dbVars
    <2>3. ASSUME SubscribeCancelOld(p)
          PROVE  /\ sess[p].at = "subscribe.cancelOld" /\ row' = row
                 /\ sess'[p].user = sess[p].user /\ sess'[p].snap = sess[p].snap
                 /\ sess[p].snap.rzp \in Mandates /\ life'[sess[p].snap.rzp] = "cancelled"
      <3>1. sess[p].snap.rzp \in Mandates
        BY <1>0, <2>3 DEF SubscribeCancelOld, SessionLink, SessionType, Row
      <3>2. sess' = [sess EXCEPT ![p].at = "subscribe.create"] /\ sess[p].at = "subscribe.cancelOld"
        BY <2>3 DEF SubscribeCancelOld, Goto
      <3>3. row' = row
        BY <2>3 DEF SubscribeCancelOld, dbVars
      <3>4. life'[sess[p].snap.rzp] = "cancelled"
        BY <1>0, <2>3, <3>1 DEF SubscribeCancelOld, HubCancels, HubRefuses
      <3> QED
        BY <1>0, <3>1, <3>2, <3>3, <3>4 DEF SessionType
    <2>4. ASSUME SubscribeCreate(p)
          PROVE  /\ sess[p].at = "subscribe.create" /\ row' = row
                 /\ sess'[p].user = sess[p].user /\ sess'[p].snap = sess[p].snap
      <3>1. PICK m : sess' = [sess EXCEPT ![p].at = "subscribe.commit", ![p].m = m]
        BY <1>0, <1>1, <2>4 DEF SubscribeCreate, Finish, Idle, SubscribePlaces
      <3> QED
        BY <1>0, <2>4, <3>1 DEF SubscribeCreate, dbVars, SessionType
    <2>5. CASE \E u \in Users : SubscribeLoad(p, u)
      BY <2>1, <2>2, <2>5
    <2>6. CASE SubscribeCancelOld(p)
      BY <1>0, <2>1, <2>3, <2>6 DEF SubscribeOK, SubscribePlaces, Open, Ongoing
    <2>7. CASE SubscribeCreate(p)
      <3>1. ASSUME sess[p].snap # NoRow, sess[p].snap.rzp # NoMandate
            PROVE  /\ sess[p].snap.rzp \in Mandates /\ life[sess[p].snap.rzp] # "none"
                   /\ life[sess[p].snap.rzp] \notin Open
        BY <1>0, <2>4, <2>7, <3>1 DEF SessionLink, Owned, SessionType, Row, SubscribeOK, SubscribePlaces
      <3> QED
        BY <1>0, <1>2, <2>1, <2>4, <2>7, <3>1 DEF SubscribeOK, SubscribePlaces
    <2> QED
      BY <2>1, <2>5, <2>6, <2>7
  <1> QED
    BY <1>3, <1>4

\* The row names the mandate that was told last, and those before are over.
LEMMA NamedInRowStep ==
  ASSUME MandateInv, [Next]_vars
  PROVE  NamedInRow' /\ ToldFirst'
  <1>0. Links /\ Links' /\ Grows /\ told \subseteq Mandates
    BY LinksStep, GrowsStep DEF MandateInv, Links, TypeOK
  <1>1. ASSUME NEW p \in Sessions, SubscribeCommit(p)
        PROVE  \E u \in Users :
                 /\ u = sess[p].user /\ Owned(sess[p].m, u) /\ sess[p].m \in Mandates
                 /\ told' \subseteq told \union {sess[p].m}
                 /\ told' # told => row'[u] # NoRow /\ row'[u].rzp = sess[p].m
    <2>1. PICK u \in Users : u = sess[p].user
      BY <1>0, <1>1 DEF SubscribeCommit, Links, SessionLinks, SessionLink
    <2>2. /\ sess[p].m \in Mandates /\ Owned(sess[p].m, u) /\ sess[p] \in SessionType
          /\ sess[p].snap # NoRow => sess[p].snap.rzp # sess[p].m
      BY <1>0, <1>1, <2>1 DEF SubscribeCommit, Links, SessionLinks, SessionLink, TypeOK
    <2>3. Subscribed(p) \in Row /\ Subscribed(p).rzp = sess[p].m
      BY <2>2 DEF Subscribed, Row, Plans, Statuses, SessionType
    <2>4. CASE sess[p].snap # NoRow
      <3>1. FlushRow(p, Subscribed(p)) /\ told' = told \union {sess[p].m}
        BY <1>1, <2>4 DEF SubscribeCommit
      <3>2. row'[u] # NoRow /\ row'[u].rzp = Net(row[u].rzp, sess[p].snap.rzp, sess[p].m)
        BY <1>0, <2>1, <2>3, <2>4, <3>1, FlushRowFields
      <3> QED
        BY <2>1, <2>2, <2>4, <3>1, <3>2 DEF Net
    <2>5. CASE sess[p].snap = NoRow
      <3>1. \/ /\ row' = [row EXCEPT ![u] = Subscribed(p)]
               /\ told' = told \union {sess[p].m}
            \/ UNCHANGED <<row, told>>
        BY <1>1, <2>1, <2>5 DEF SubscribeCommit
      <3> QED
        BY <1>0, <2>1, <2>2, <2>3, <3>1, BillingAssumption DEF Links, TypeOK
    <2> QED
      BY <2>4, <2>5
  <1>2. ASSUME NEW m \in told', m \notin told
        PROVE  /\ m \in Mandates /\ owner'[m] \in Users /\ life'[m] # "none"
               /\ row'[owner'[m]] # NoRow /\ row'[owner'[m]].rzp = m
    <2>1. PICK p \in Sessions : SubscribeCommit(p)
      BY <1>0, <1>2, NamesStep
    <2>2. PICK u \in Users :
            /\ Owned(sess[p].m, u) /\ sess[p].m \in Mandates /\ m = sess[p].m
            /\ row'[u] # NoRow /\ row'[u].rzp = sess[p].m
      BY <1>1, <1>2, <2>1
    <2> QED
      BY <1>0, <2>2 DEF Grows, Owned
  <1>3. ASSUME NEW m \in told
        PROVE  /\ m \in Mandates /\ owner[m] \in Users /\ owner'[m] = owner[m]
               /\ life[m] # "none" /\ life'[m] # "none"
    BY <1>0, <1>3 DEF MandateInv, ToldFirst, Grows, Owned
  <1>4. ToldFirst'
    <2>1. ASSUME NEW m \in Mandates, life'[m] \in Ongoing
          PROVE  m \in told'
      BY <1>0, <2>1, LifeMoves, NamesStep DEF MandateInv, ToldFirst
    <2> QED
      BY <1>2, <1>3, <2>1 DEF ToldFirst
  <1>5. ASSUME NEW m \in told, life'[m] \in Open
        PROVE  row'[owner'[m]] # NoRow /\ row'[owner'[m]].rzp = m
    <2>1. PICK u \in Users : u = owner[m] /\ u = owner'[m]
      BY <1>3
    <2>2. life[m] \in Open
      BY <1>0, <1>3, <1>5, LifeMoves
    <2>3. row[u] # NoRow /\ row[u].rzp = m /\ row'[u] # NoRow
      BY <1>0, <2>1, <2>2 DEF MandateInv, NamedInRow, Grows
    <2>4. CASE row'[u].rzp # row[u].rzp
      <3>1. PICK p \in Sessions : SubscribeCommit(p) /\ sess[p].user = u /\ sess[p].snap # NoRow
        BY <1>0, <2>3, <2>4, NamesStep
      <3>2. /\ sess[p].at = "subscribe.commit" /\ SubscribeOK(p)
        BY <3>1 DEF SubscribeCommit, MandateInv
      <3>3. sess[p].snap.rzp = m /\ (m # NoMandate => life[m] \notin Open)
        BY <2>3, <3>1, <3>2 DEF SubscribeOK, SubscribePlaces
      <3> QED
        BY <1>3, <2>2, <3>3, BillingAssumption
    <2> QED
      BY <2>1, <2>3, <2>4
  <1> QED
    BY <1>0, <1>2, <1>4, <1>5 DEF NamedInRow

\* No user has two mandates that Razorpay can debit, whatever webhooks, grants
\* and sweeps run meanwhile, a process that dies after the Hub has made a
\* mandate included: a retry cancels the mandate the row names, and one the row
\* does not name was never told. It takes one thread for the users' requests,
\* and a Hub that does what it is asked although its answer may be lost.
THEOREM OneOngoingMandateHolds ==
  ASSUME \A p, q \in Web : p = q, "refuse" \notin HubFaults
  PROVE  Spec => []OneOngoingMandate
  <1>1. Init => MandateInv
    <2>1. ASSUME Init PROVE MandateInv
      <3>1. Links /\ told = {} /\ (\A p \in Sessions : sess[p] = Idle)
            /\ \A m \in Mandates : life[m] = "none"
        BY <2>1, LinksInit DEF Init
      <3> QED
        BY <3>1 DEF MandateInv, ToldFirst, NamedInRow, SubscribeOK, SubscribePlaces, Idle, Ongoing
    <2> QED
      BY <2>1
  <1>2. MandateInv /\ [Next]_vars => MandateInv'
    BY LinksStep, SubscribeOKStep, NamedInRowStep DEF MandateInv
  <1>3. MandateInv => OneOngoingMandate
    <2>1. ASSUME MandateInv, NEW m \in Mandates, NEW n \in Mandates,
                 life[m] \in Ongoing, life[n] \in Ongoing, owner[m] = owner[n]
          PROVE  m = n
      <3>1. m \in told /\ n \in told /\ life[m] \in Open /\ life[n] \in Open
        BY <2>1 DEF MandateInv, ToldFirst, Open
      <3> QED
        BY <2>1, <3>1 DEF MandateInv, NamedInRow
    <2> QED
      BY <2>1 DEF OneOngoingMandate
  <1> QED
    BY <1>1, <1>2, <1>3, PTL DEF Spec

-----------------------------------------------------------------------------
(* Where requests, webhooks and sweeps come one at a time *)

Acts(p) == Subscribe(p) \/ Cancel(p) \/ Grant(p) \/ Hook(p) \/ Sync(p) \/ Crash(p)

HeldPlaces == SubscribePlaces \union {"cancel.hub", "cancel.commit", "grant.commit", "hook.commit"}

\* The row a request will write is still the one it loaded.
Held(p) == sess[p].at \in HeldPlaces => sess[p].snap = row[sess[p].user]

\* A step is one of the only session, or leaves what the sessions write alone.
LEMMA WhoActs ==
  ASSUME [Next]_vars, NEW p \in Sessions, \A q \in Sessions : q = p
  PROVE  Acts(p) \/ UNCHANGED <<dbVars, sess, closed, comped>>
  BY DEF Next, vars, Sessions, Acts, Razorpay, RazorpayMoves, RazorpayRefunds

\* A session that acts goes to another place.
LEMMA ActsMove ==
  ASSUME Links, NEW p \in Sessions, Acts(p)
  PROVE  sess'[p].at # sess[p].at
  <1>0. sess \in [Sessions -> SessionType]
    BY DEF Links, TypeOK
  <1>1. ASSUME NEW u \in Users,
               SubscribeLoad(p, u) \/ CancelLoad(p, u) \/ GrantLoad(p, u) \/ SyncSelect(p, u)
        PROVE  sess'[p].at # sess[p].at
    <2>1. CASE SubscribeLoad(p, u)
      BY <1>0, <2>1 DEF SubscribeLoad, Idle
    <2>2. CASE CancelLoad(p, u)
      BY <1>0, <2>2 DEF CancelLoad, Idle
    <2>3. CASE GrantLoad(p, u)
      BY <1>0, <2>3 DEF GrantLoad, Idle
    <2>4. CASE SyncSelect(p, u)
      BY <1>0, <2>4 DEF SyncSelect, Idle
    <2> QED
      BY <1>1, <2>1, <2>2, <2>3, <2>4
  <1>2. ASSUME NEW e \in sent, HookReceive(p, e)
        PROVE  sess'[p].at # sess[p].at
    BY <1>0, <1>2 DEF HookReceive
  <1>3. ASSUME sess[p].at # "idle", Finish(p)
        PROVE  sess'[p].at # sess[p].at
    BY <1>0, <1>3 DEF Finish, Idle
  <1>4. ASSUME NEW place \in Places, place # sess[p].at, Goto(p, place)
        PROVE  sess'[p].at # sess[p].at
    BY <1>0, <1>4 DEF Goto, SessionType
  <1>5. ASSUME SubscribeCreate(p)
        PROVE  sess'[p].at # sess[p].at
    <2>1. ASSUME NEW m, sess' = [sess EXCEPT ![p].at = "subscribe.commit", ![p].m = m]
          PROVE  sess'[p].at = "subscribe.commit"
      BY <1>0, <2>1 DEF SessionType
    <2> QED
      BY <1>3, <1>5, <2>1 DEF SubscribeCreate
  <1>6. ASSUME SyncLoad(p)
        PROVE  sess'[p].at # sess[p].at
    <2>1. ASSUME NEW m, sess' = [sess EXCEPT ![p].at = "sync.report", ![p].snap = m]
          PROVE  sess'[p].at = "sync.report"
      BY <1>0, <2>1 DEF SessionType
    <2> QED
      BY <1>3, <1>6, <2>1 DEF SyncLoad
  <1>7. ASSUME SubscribeCancelOld(p) \/ SubscribeRefused(p) \/ SubscribeCommit(p)
               \/ CancelHub(p) \/ CancelCommit(p) \/ GrantCommit(p)
               \/ SyncAccepted(p) \/ SyncFailed(p) \/ Crash(p)
        PROVE  sess'[p].at # sess[p].at
    BY <1>3, <1>4, <1>7 DEF SubscribeCancelOld, SubscribeRefused, SubscribeCommit, CancelHub,
       CancelCommit, GrantCommit, SyncAccepted, SyncFailed, Crash, Places
  <1>8. ASSUME HookStatus(p) \/ HookCharged(p) \/ HookDowngrade(p) \/ HookRefund(p)
               \/ HookVerify(p) \/ HookInsert(p) \/ HookReport(p) \/ HookNotify(p)
        PROVE  sess'[p].at # sess[p].at
    BY <1>3, <1>4, <1>8 DEF HookStatus, HookCharged, HookDowngrade, HookRefund, HookVerify,
       HookInsert, HookReport, HookNotify, Places
  <1> QED
    BY <1>1, <1>2, <1>5, <1>6, <1>7, <1>8 DEF Acts, Subscribe, Cancel, Grant, Hook, Sync

\* What was loaded stays what the database holds, as nobody else writes.
LEMMA HeldStep ==
  ASSUME Links, [Next]_vars, NEW p \in Sessions, \A q \in Sessions : q = p, Held(p)
  PROVE  Held(p)'
  <1>0. sess \in [Sessions -> SessionType] /\ row \in [Users -> Row \union {NoRow}]
    BY DEF Links, TypeOK
  <1>1. CASE UNCHANGED <<dbVars, sess, closed, comped>>
    BY <1>1 DEF Held, dbVars
  <1>2. CASE Acts(p) /\ sess'[p].at \in HeldPlaces
    <2>1. Goes(p)
      <3>1. sess'[p] # sess[p] /\ sess'[p] # Idle
        BY <1>2, ActsMove DEF Idle, HeldPlaces, SubscribePlaces
      <3> QED
        BY <3>1, ActingSession
    <2>2. ASSUME NEW u \in Users, SubscribeLoad(p, u) \/ CancelLoad(p, u) \/ GrantLoad(p, u)
          PROVE  Held(p)'
      <3>1. CASE SubscribeLoad(p, u)
        BY <1>0, <3>1 DEF SubscribeLoad, Idle, Held, dbVars
      <3>2. CASE CancelLoad(p, u)
        BY <1>0, <3>2 DEF CancelLoad, Idle, Held, dbVars
      <3>3. CASE GrantLoad(p, u)
        BY <1>0, <3>3 DEF GrantLoad, Idle, Held, dbVars
      <3> QED
        BY <2>2, <3>1, <3>2, <3>3
    <2>3. ASSUME SubscribeCancelOld(p) \/ CancelHub(p)
          PROVE  Held(p)'
      <3>1. /\ row' = row /\ sess[p].at \in HeldPlaces
            /\ Finish(p) \/ \E place : sess' = [sess EXCEPT ![p].at = place]
        BY <2>3 DEF SubscribeCancelOld, CancelHub, Goto, dbVars, HeldPlaces, SubscribePlaces
      <3>2. sess'[p].user = sess[p].user /\ sess'[p].snap = sess[p].snap
        BY <1>0, <1>2, <3>1 DEF SessionType, Finish, Idle, HeldPlaces, SubscribePlaces
      <3> QED
        BY <3>1, <3>2 DEF Held
    <2>4. ASSUME SubscribeCreate(p)
          PROVE  Held(p)'
      <3>1. PICK m : sess' = [sess EXCEPT ![p].at = "subscribe.commit", ![p].m = m]
        BY <1>0, <1>2, <2>4 DEF SubscribeCreate, Finish, Idle, HeldPlaces, SubscribePlaces
      <3>2. /\ row' = row /\ sess[p].at \in HeldPlaces
            /\ sess'[p].user = sess[p].user /\ sess'[p].snap = sess[p].snap
        BY <1>0, <2>4, <3>1 DEF SubscribeCreate, dbVars, SessionType, HeldPlaces, SubscribePlaces
      <3> QED
        BY <3>2 DEF Held
    <2>5. ASSUME NEW e \in sent, HookReceive(p, e)
          PROVE  Held(p)'
      BY <1>0, <2>5 DEF HookReceive, Held, dbVars
    <2>6. ASSUME NEW u \in Users PROVE ~ SyncSelect(p, u)
      BY <1>0, <1>2 DEF SyncSelect, Idle, HeldPlaces, SubscribePlaces
    <2>7. ~ SyncLoad(p)
      <3>1. ASSUME NEW m, sess' = [sess EXCEPT ![p].at = "sync.report", ![p].snap = m]
            PROVE  sess'[p].at = "sync.report"
        BY <1>0, <3>1 DEF SessionType
      <3> QED
        BY <1>0, <1>2, <3>1 DEF SyncLoad, Finish, Idle, HeldPlaces, SubscribePlaces
    <2>8. ~ (HookStatus(p) \/ HookCharged(p) \/ HookDowngrade(p) \/ HookRefund(p)
              \/ HookVerify(p) \/ HookInsert(p) \/ HookReport(p))
      BY <1>0, <1>2 DEF HookStatus, HookCharged, HookDowngrade, HookRefund, HookVerify, HookInsert,
         HookReport, Goto, Finish, Idle, SessionType, HeldPlaces, SubscribePlaces
    <2> QED
      BY <2>1, <2>2, <2>3, <2>4, <2>5, <2>6, <2>7, <2>8 DEF Goes
  <1>3. CASE sess'[p].at \notin HeldPlaces
    BY <1>3 DEF Held
  <1> QED
    BY <1>1, <1>2, <1>3, WhoActs

\* Writing over the row that was loaded writes all of it.
LEMMA FlushAll ==
  ASSUME NEW r \in Row, NEW new \in Row
  PROVE  Flush(r, r, new) = new
  BY DEF Flush, Net, Row

\* How the row of a user is written.
Written(p, u) ==
  \/ SubscribeCommit(p) /\ row'[u] = Subscribed(p)
  \/ /\ CancelCommit(p) /\ row[u] \in Row /\ row'[u].plan = row[u].plan /\ row'[u].rzp = row[u].rzp
     /\ row'[u].status = IF AtCycleEnd(row[u]) THEN row[u].status ELSE "canceled"
  \/ GrantCommit(p) /\ u \in comped' /\ row'[u].status = "active"
  \/ row[u] \in Row /\ row'[u] = [row[u] EXCEPT !.synced = TRUE]
  \/ /\ HookStatus(p) \/ HookCharged(p) \/ HookDowngrade(p)
     /\ row[u] \in Row /\ row[u].rzp = sess[p].ev.m /\ row'[u].rzp = row[u].rzp
     /\ row'[u].status = StatusFor(sess[p].ev.kind)
     /\ HookDowngrade(p) \/ row'[u].plan = row[u].plan

\* A row is written by the session that has loaded it.
LEMMA WrittenBy ==
  ASSUME Links, [Next]_vars, NEW p \in Sessions, \A q \in Sessions : q = p, Held(p), EventMatches(p),
         NEW u \in Users, row'[u] # row[u]
  PROVE  sess[p].user = u /\ Written(p, u)
  <1>0. /\ sess \in [Sessions -> SessionType] /\ row \in [Users -> Row \union {NoRow}]
        /\ SessionLink(p) /\ NoRow \notin Row
    BY BillingAssumption DEF Links, TypeOK, SessionLinks
  \* A flush of the row that was loaded.
  <1>1. ASSUME NEW new \in Row, sess[p].at \in HeldPlaces, sess[p].snap # NoRow, FlushRow(p, new)
        PROVE  sess[p].user = u /\ row[u] \in Row /\ sess[p].snap = row[u] /\ row'[u] = new
    <2>1. PICK v \in Users : v = sess[p].user /\ sess[p].snap = row[v] /\ row[v] \in Row
      BY <1>0, <1>1 DEF Held, SessionLink
    <2>2. row' = [row EXCEPT ![v] = new]
      BY <1>1, <2>1, FlushAll DEF FlushRow
    <2> QED
      BY <1>0, <2>1, <2>2
  <1>2. ASSUME SubscribeCommit(p)
        PROVE  sess[p].user = u /\ Written(p, u)
    <2>1. sess[p].at \in HeldPlaces /\ sess[p].m \in Mandates
      BY <1>0, <1>2 DEF SubscribeCommit, HeldPlaces, SubscribePlaces, SessionLink
    <2>2. Subscribed(p) \in Row
      BY <1>0, <2>1 DEF Subscribed, Row, Plans, Statuses, SessionType
    <2>3. CASE sess[p].snap # NoRow
      BY <1>1, <1>2, <2>1, <2>2, <2>3 DEF SubscribeCommit, Written
    <2>4. CASE sess[p].snap = NoRow
      BY <1>0, <1>2, <2>4 DEF SubscribeCommit, Written
    <2> QED
      BY <2>3, <2>4
  <1>3. ASSUME CancelCommit(p)
        PROVE  sess[p].user = u /\ Written(p, u)
    <2>1. sess[p].at \in HeldPlaces /\ sess[p].snap \in Row
      BY <1>0, <1>3 DEF CancelCommit, HeldPlaces, SessionLink, SessionType
    <2> DEFINE atEnd == AtCycleEnd(sess[p].snap)
               new == [sess[p].snap EXCEPT !.cancelAtEnd = atEnd,
                                           !.status = IF atEnd THEN @ ELSE "canceled"]
    <2>2. atEnd \in BOOLEAN
      BY DEF AtCycleEnd
    <2>3. /\ new \in Row /\ new.plan = sess[p].snap.plan /\ new.rzp = sess[p].snap.rzp
          /\ new.status = IF atEnd THEN sess[p].snap.status ELSE "canceled"
      BY <2>1, <2>2 DEF Row, Statuses
    <2>4. FlushRow(p, new)
      BY <1>3 DEF CancelCommit
    <2> HIDE DEF new
    <2>5. sess[p].user = u /\ row[u] \in Row /\ sess[p].snap = row[u] /\ row'[u] = new
      BY <1>0, <1>1, <2>1, <2>3, <2>4
    <2> QED
      BY <1>3, <2>3, <2>5 DEF Written
  <1>4. ASSUME GrantCommit(p)
        PROVE  sess[p].user = u /\ Written(p, u)
    <2>1. PICK via \in Grants, plan \in Plans : GrantWrite(p, via, plan)
      BY <1>4 DEF GrantCommit
    <2>2. CASE sess[p].snap # NoRow
      <3>1. sess[p].at \in HeldPlaces /\ sess[p].snap \in Row
        BY <1>0, <1>4, <2>2 DEF GrantCommit, HeldPlaces, SessionType
      <3> DEFINE ends == IF via = "checkout" THEN FALSE ELSE sess[p].snap.cancelAtEnd
                 new == [sess[p].snap EXCEPT !.plan = plan, !.status = "active", !.cancelAtEnd = ends]
      <3>2. ends \in BOOLEAN
        BY <3>1 DEF Row
      <3>3. FlushRow(p, new) /\ comped' = comped \union {sess[p].user}
        BY <2>1, <2>2 DEF GrantWrite
      <3> HIDE DEF ends
      <3>4. new \in Row /\ new.status = "active"
        BY <3>1, <3>2 DEF Row, Statuses
      <3> HIDE DEF new
      <3>5. sess[p].user = u /\ row'[u] = new
        BY <1>1, <2>2, <3>1, <3>3, <3>4
      <3> QED
        BY <1>4, <3>3, <3>4, <3>5 DEF Written
    <2>3. CASE sess[p].snap = NoRow
      <3> DEFINE new == [plan |-> plan, status |-> "active", rzp |-> NoMandate,
                         cancelAtEnd |-> FALSE, synced |-> FALSE]
      <3>1. /\ row' = [row EXCEPT ![sess[p].user] = new]
            /\ comped' = comped \union {sess[p].user}
        BY <2>1, <2>3 DEF GrantWrite
      <3>2. sess[p].user = u /\ row'[u] = new /\ new.status = "active"
        BY <1>0, <3>1
      <3> QED
        BY <1>4, <3>1, <3>2 DEF Written
    <2> QED
      BY <2>2, <2>3
  <1>5. ASSUME NEW key, NEW status, ReportAccepted(p, key, status) \/ ReportFailed(p, key, status)
        PROVE  sess[p].user = u /\ row'[u] = [row[u] EXCEPT !.synced = TRUE]
    <2>1. row' = [row EXCEPT ![sess[p].user].synced = TRUE]
      BY <1>5 DEF ReportAccepted, ReportFailed
    <2> QED
      BY <1>0, <2>1
  <1>6. ASSUME SyncAccepted(p) \/ SyncFailed(p) \/ HookReport(p)
        PROVE  sess[p].user = u /\ Written(p, u)
    <2>1. sess[p].user = u /\ row'[u] = [row[u] EXCEPT !.synced = TRUE]
      BY <1>5, <1>6 DEF SyncAccepted, SyncFailed, HookReport
    <2>2. sess[p].snap # NoRow
      BY <1>0, <1>6 DEF SyncAccepted, SyncFailed, HookReport, SessionLink, HookPlaces
    <2>3. row[u] \in Row
      BY <1>0, <2>1, <2>2 DEF SessionLink
    <2> QED
      BY <2>1, <2>3 DEF Written
  <1>7. ASSUME HookStatus(p) \/ HookCharged(p) \/ HookDowngrade(p)
        PROVE  sess[p].user = u /\ Written(p, u)
    <2>1. /\ sess[p].at = "hook.commit" /\ sess[p].at \in HeldPlaces /\ sess[p].snap \in Row
          /\ sess[p].ev.kind # "refunded"
      BY <1>0, <1>7 DEF HookStatus, HookCharged, HookDowngrade, HeldPlaces, HookPlaces, SessionLink, SessionType
    <2>2. sess[p].snap.rzp = sess[p].ev.m
      BY <2>1 DEF EventMatches
    <2>3. StatusFor(sess[p].ev.kind) \in Statuses /\ "Free" \in Plans
      BY DEF StatusFor, Statuses, Plans
    <2>4. PICK new \in Row :
            /\ FlushRow(p, new) /\ new.rzp = sess[p].snap.rzp
            /\ new.status = StatusFor(sess[p].ev.kind)
            /\ HookDowngrade(p) \/ new.plan = sess[p].snap.plan
      <3>1. CASE HookStatus(p) \/ HookCharged(p)
        <4> DEFINE n == [sess[p].snap EXCEPT !.status = StatusFor(sess[p].ev.kind)]
        <4>1. FlushRow(p, n)
          BY <3>1 DEF HookStatus, HookCharged
        <4>2. /\ n \in Row /\ n.rzp = sess[p].snap.rzp /\ n.plan = sess[p].snap.plan
              /\ n.status = StatusFor(sess[p].ev.kind)
          BY <2>1, <2>3 DEF Row
        <4> HIDE DEF n
        <4> QED
          BY <4>1, <4>2
      <3>2. CASE HookDowngrade(p)
        <4> DEFINE n == [sess[p].snap EXCEPT !.status = StatusFor(sess[p].ev.kind), !.plan = "Free"]
        <4>1. FlushRow(p, n)
          BY <3>2 DEF HookDowngrade
        <4>2. n \in Row /\ n.rzp = sess[p].snap.rzp /\ n.status = StatusFor(sess[p].ev.kind)
          BY <2>1, <2>3 DEF Row
        <4> HIDE DEF n
        <4> QED
          BY <3>2, <4>1, <4>2
      <3> QED
        BY <1>7, <3>1, <3>2
    <2>5. sess[p].user = u /\ row[u] \in Row /\ sess[p].snap = row[u] /\ row'[u] = new
      BY <1>0, <1>1, <2>1, <2>4
    <2> QED
      BY <1>7, <2>2, <2>4, <2>5 DEF Written
  <1>8. \/ SubscribeCommit(p) \/ CancelCommit(p) \/ GrantCommit(p)
        \/ SyncAccepted(p) \/ SyncFailed(p) \/ HookReport(p)
        \/ HookStatus(p) \/ HookCharged(p) \/ HookDowngrade(p)
    BY DEF Next, vars, dbVars, Sessions, Subscribe, Cancel, Grant, Sync, Hook, Razorpay,
       SubscribeLoad, SubscribeCancelOld, SubscribeCreate, SubscribeRefused, CancelLoad,
       CancelHub, GrantLoad, SyncSelect, SyncLoad, HookReceive, HookRefund, HookVerify,
       HookInsert, HookNotify, Crash, RazorpayMoves, RazorpayRefunds
  <1> QED
    BY <1>2, <1>3, <1>4, <1>6, <1>7, <1>8

\* What is true while there is one session.
HeldInv == Links /\ \A p \in Sessions : Held(p) /\ EventMatches(p)

\* It is inductive.
LEMMA HeldKept ==
  ASSUME \A p, q \in Sessions : p = q
  PROVE  Spec => []HeldInv
  <1>1. Init => HeldInv
    BY LinksInit DEF Init, HeldInv, Held, EventMatches, Idle, HeldPlaces, SubscribePlaces
  <1>2. ASSUME HeldInv, [Next]_vars PROVE HeldInv'
    <2>1. Links /\ Links' /\ \A p \in Sessions : HookStep(p)
      BY <1>2, LinksStep, SessionStep DEF HeldInv
    <2>2. ASSUME NEW p \in Sessions PROVE Held(p)'
      BY <1>2, <2>1, HeldStep DEF HeldInv
    <2>3. ASSUME NEW p \in Sessions PROVE EventMatches(p)'
      BY <1>2, <2>1 DEF HeldInv, EventMatches, HookStep
    <2> QED
      BY <2>1, <2>2, <2>3 DEF HeldInv
  <1> QED
    BY <1>1, <1>2, PTL DEF Spec

\* What was closed stays closed, and a downgrade closes its mandate.
LEMMA ClosedStays ==
  ASSUME Links, [Next]_vars
  PROVE  closed \subseteq closed' /\ \A p \in Sessions : HookDowngrade(p) => sess[p].ev.m \in closed'
  BY SessionStep DEF CloseStep, HookDowngrade

\* Where requests come one at a time, nobody pays for a row that says "Free":
\* through retries, failed debits, pauses and late or repeated webhooks, the
\* plan is taken away only by the handler that ends the mandate the row names.
THEOREM PaidPlanKeptHolds ==
  ASSUME \A p, q \in Sessions : p = q
  PROVE  Spec => []PaidPlanKept
  <1>1. Init => PaidPlanKept
    BY DEF Init, PaidPlanKept
  <1>2. ASSUME HeldInv, PaidPlanKept, [Next]_vars PROVE PaidPlanKept'
    <2>0. Links /\ closed \subseteq closed' /\ comped \subseteq comped'
      BY <1>2, ClosedStays, CompedStays DEF HeldInv
    <2>1. ASSUME NEW u \in Users, row'[u] # NoRow, row'[u].rzp \in Mandates \ closed', u \notin comped'
          PROVE  row'[u].plan = "Pro"
      <3>1. CASE row'[u] = row[u]
        BY <1>2, <2>0, <2>1, <3>1 DEF PaidPlanKept
      <3>2. CASE row'[u] # row[u]
        <4>1. PICK p \in Sessions : Written(p, u)
          <5>1. PICK p \in Sessions : \A q \in Sessions : q = p
            <6>1. ~ UNCHANGED vars
              BY <3>2 DEF vars, dbVars
            <6>2. Sessions # {} \/ UNCHANGED row
              BY <1>2, <6>1 DEF Next, Sessions, Razorpay, RazorpayMoves, RazorpayRefunds, dbVars
            <6> QED
              BY <3>2, <6>2
          <5>2. Held(p) /\ EventMatches(p)
            BY <1>2 DEF HeldInv
          <5> QED
            BY <1>2, <2>0, <3>2, <5>1, <5>2, WrittenBy
        <4>2. CASE row[u] \in Row /\ row'[u].rzp = row[u].rzp /\ row'[u].plan = row[u].plan
          BY <1>2, <2>0, <2>1, <4>2, BillingAssumption DEF PaidPlanKept
        <4>3. CASE SubscribeCommit(p) /\ row'[u] = Subscribed(p)
          BY <4>3 DEF Subscribed
        <4>4. CASE row[u] \in Row /\ row'[u] = [row[u] EXCEPT !.synced = TRUE]
          <5>1. row'[u].rzp = row[u].rzp /\ row'[u].plan = row[u].plan
            BY <4>4 DEF Row
          <5> QED
            BY <4>2, <4>4, <5>1
        <4>5. CASE HookDowngrade(p) /\ row[u].rzp = sess[p].ev.m /\ row'[u].rzp = row[u].rzp
          BY <1>2, <2>0, <2>1, <4>5, ClosedStays
        <4> QED
          BY <2>1, <4>1, <4>2, <4>3, <4>4, <4>5 DEF Written
      <3> QED
        BY <3>1, <3>2
    <2> QED
      BY <2>1 DEF PaidPlanKept
  <1> QED
    BY <1>1, <1>2, HeldKept, PTL DEF Spec

\* A mandate that Razorpay says was cancelled is cancelled.
SaidIsDone == \A e \in sent : e.kind = "cancelled" => life[e.m] = "cancelled"

\* A row is marked canceled after the Hub has cancelled.
CancelOK(p) ==
  sess[p].at = "cancel.commit" /\ ~ AtCycleEnd(sess[p].snap) => life[sess[p].snap.rzp] = "cancelled"

\* A row that says "canceled" names a mandate that is.
CanceledEnded ==
  \A u \in Users :
    row[u] # NoRow /\ row[u].status = "canceled" /\ row[u].rzp # NoMandate
      => life[row[u].rzp] = "cancelled"

\* Razorpay and the Hub say that a mandate is over when it is.
LEMMA SaidStep ==
  ASSUME Links, SaidIsDone, [Next]_vars
  PROVE  SaidIsDone'
  <1>0. life \in [Mandates -> LifeStates] /\ sent \subseteq Event
    BY DEF Links, TypeOK
  <1>1. ASSUME NEW e \in sent, e.kind = "cancelled" PROVE life'[e.m] = "cancelled"
    <2>1. e.m \in Mandates
      BY <1>0 DEF Event
    <2> QED
      BY <1>1, <2>1, LifeMoves DEF SaidIsDone
  <1>2. ASSUME NEW e \in sent', e \notin sent, e.kind = "cancelled" PROVE life'[e.m] = "cancelled"
    <2>1. \/ \E p \in Sessions : SubscribeCancelOld(p) \/ CancelHub(p)
          \/ \E m \in Mandates : RazorpayMoves(m) \/ RazorpayRefunds(m)
      BY <1>2 DEF Next, vars, dbVars, rzpVars, Sessions, Subscribe, Cancel, Grant, Sync, Hook, Razorpay,
           SubscribeLoad, SubscribeCreate, SubscribeRefused, SubscribeCommit, CancelLoad, CancelCommit,
           GrantLoad, GrantCommit, SyncSelect, SyncLoad, SyncAccepted, SyncFailed, HookReceive, HookStatus,
           HookCharged, HookDowngrade, HookRefund, HookVerify, HookInsert, HookReport, HookNotify, Crash
    <2>2. CASE \E p \in Sessions : SubscribeCancelOld(p) \/ CancelHub(p)
      <3>1. PICK m \in Mandates : HubCancels(m)
        BY <1>2, <2>2, LoadedTypes DEF SubscribeCancelOld, CancelHub, Links, SessionLinks,
           SessionLink, Row, HubRefuses, HubTakesCancel
      <3>2. e = [kind |-> "cancelled", m |-> m, pay |-> "none"] /\ life' = [life EXCEPT ![m] = "cancelled"]
        BY <1>2, <3>1 DEF HubCancels
      <3>3. e.m = m
        BY <3>2
      <3> QED
        BY <1>0, <3>2, <3>3
    <2>3. CASE \E m \in Mandates : RazorpayMoves(m)
      <3>1. PICK m \in Mandates, t \in Lifecycle :
              /\ life' = [life EXCEPT ![m] = t.to]
              /\ \E pay : sent' = sent \union {[kind |-> t.kind, m |-> m, pay |-> pay]}
        BY <2>3 DEF RazorpayMoves, Transition
      <3>2. PICK pay : e = [kind |-> t.kind, m |-> m, pay |-> pay]
        BY <1>2, <3>1
      <3>3. e.m = m /\ t.kind = "cancelled"
        BY <1>2, <3>2
      <3>4. t.to = "cancelled"
        BY <3>3 DEF Lifecycle
      <3> QED
        BY <1>0, <3>1, <3>3, <3>4
    <2>4. CASE \E m \in Mandates : RazorpayRefunds(m)
      <3>1. PICK m \in Mandates, f \in sent :
              sent' = sent \union {[kind |-> "refunded", m |-> m, pay |-> f.pay]}
        BY <2>4 DEF RazorpayRefunds
      <3>2. e = [kind |-> "refunded", m |-> m, pay |-> f.pay]
        BY <1>2, <3>1
      <3>3. e.kind = "refunded"
        BY <3>2
      <3> QED
        BY <1>2, <3>3
    <2> QED
      BY <2>1, <2>2, <2>3, <2>4
  <1> QED
    BY <1>1, <1>2 DEF SaidIsDone

\* Who goes on to mark a row canceled has had the mandate cancelled.
LEMMA CancelOKStep ==
  ASSUME Links, [Next]_vars, NEW p \in Sessions, CancelOK(p)
  PROVE  CancelOK(p)'
  <1>0. /\ sess \in [Sessions -> SessionType] /\ life \in [Mandates -> LifeStates]
        /\ row \in [Users -> Row \union {NoRow}]
    BY DEF Links, TypeOK
  <1>1. SUFFICES ASSUME sess'[p].at = "cancel.commit", ~ AtCycleEnd(sess'[p].snap)
                 PROVE  life'[sess'[p].snap.rzp] = "cancelled"
    BY DEF CancelOK, AtCycleEnd
  <1>2. CASE sess'[p] = sess[p]
    <2>1. sess[p].snap.rzp \in Mandates
      <3>1. sess[p].snap \in Row
        BY <1>1, <1>2, LoadedTypes DEF Links, SessionLinks, SessionLink
      <3> QED
        BY <1>1, <1>2, <3>1 DEF AtCycleEnd, Row
    <2>2. life[sess[p].snap.rzp] = "cancelled"
      BY <1>1, <1>2 DEF CancelOK
    <2> QED
      BY <1>2, <2>1, <2>2, LifeMoves
  <1>3. CASE sess'[p] # sess[p]
    <2>1. Goes(p)
      BY <1>1, <1>3, ActingSession DEF Idle
    <2>2. ASSUME NEW u \in Users, CancelLoad(p, u) PROVE FALSE
      <3>1. /\ sess'[p].snap = row[u]
            /\ sess'[p].at = IF row[u].rzp # NoMandate THEN "cancel.hub" ELSE "cancel.commit"
        BY <1>0, <2>2 DEF CancelLoad, Idle
      <3> QED
        BY <1>1, <3>1 DEF AtCycleEnd
    <2>3. CASE CancelHub(p)
      <3>1. PICK m \in Mandates : m = sess[p].snap.rzp
        BY <2>3, LoadedTypes DEF CancelHub, Links, SessionLinks, SessionLink, Row
      <3>2. Goto(p, "cancel.commit") /\ HubTakesCancel(m, AtCycleEnd(sess[p].snap))
        BY <1>0, <1>1, <2>3, <3>1 DEF CancelHub, Finish, Idle
      <3>3. sess'[p].snap = sess[p].snap
        BY <1>0, <3>2 DEF Goto, SessionType
      <3>4. HubCancels(m)
        BY <1>1, <3>2, <3>3 DEF HubTakesCancel
      <3> QED
        BY <1>0, <3>1, <3>3, <3>4 DEF HubCancels
    <2>4. ASSUME NEW u \in Users, SubscribeLoad(p, u) \/ GrantLoad(p, u) \/ SyncSelect(p, u) PROVE FALSE
      <3>1. CASE SubscribeLoad(p, u)
        BY <1>0, <1>1, <3>1 DEF SubscribeLoad, Idle
      <3>2. CASE GrantLoad(p, u)
        BY <1>0, <1>1, <3>2 DEF GrantLoad, Idle
      <3>3. CASE SyncSelect(p, u)
        BY <1>0, <1>1, <3>3 DEF SyncSelect, Idle
      <3> QED
        BY <2>4, <3>1, <3>2, <3>3
    <2>5. ASSUME SubscribeCreate(p) PROVE FALSE
      <3>1. ASSUME NEW m, sess' = [sess EXCEPT ![p].at = "subscribe.commit", ![p].m = m]
            PROVE  sess'[p].at = "subscribe.commit"
        BY <1>0, <3>1 DEF SessionType
      <3> QED
        BY <1>0, <1>1, <2>5, <3>1 DEF SubscribeCreate, Finish, Idle
    <2>6. ASSUME SyncLoad(p) PROVE FALSE
      <3>1. ASSUME NEW m, sess' = [sess EXCEPT ![p].at = "sync.report", ![p].snap = m]
            PROVE  sess'[p].at = "sync.report"
        BY <1>0, <3>1 DEF SessionType
      <3> QED
        BY <1>0, <1>1, <2>6, <3>1 DEF SyncLoad, Finish, Idle
    <2>7. ASSUME \/ SubscribeCancelOld(p) \/ \E e \in sent : HookReceive(p, e)
                 \/ HookStatus(p) \/ HookCharged(p) \/ HookDowngrade(p) \/ HookRefund(p)
                 \/ HookVerify(p) \/ HookInsert(p) \/ HookReport(p)
          PROVE  FALSE
      BY <1>0, <1>1, <2>7 DEF SubscribeCancelOld, HookReceive, HookStatus, HookCharged, HookDowngrade,
         HookRefund, HookVerify, HookInsert, HookReport, Goto, Finish, Idle, SessionType
    <2> QED
      BY <2>1, <2>2, <2>3, <2>4, <2>5, <2>6, <2>7 DEF Goes
  <1> QED
    BY <1>2, <1>3

\* Where requests come one at a time, a row that says "canceled" names no
\* mandate that can still be debited: it is written after the Hub's answer, or
\* after the webhook that says so.
THEOREM CanceledMeansEndedHolds ==
  ASSUME \A p, q \in Sessions : p = q
  PROVE  Spec => []CanceledMeansEnded
  <1> DEFINE Inv == SaidIsDone /\ CanceledEnded /\ \A p \in Sessions : CancelOK(p)
  <1>1. Init => Inv
    BY DEF Init, SaidIsDone, CanceledEnded, CancelOK, Idle
  <1>2. ASSUME HeldInv, Inv, [Next]_vars PROVE Inv'
    <2>0. /\ Links /\ Links' /\ \A u \in Users : RowChange(u)
          /\ row \in [Users -> Row \union {NoRow}] /\ row' \in [Users -> Row \union {NoRow}]
      BY <1>2, LinksStep, RowStep DEF HeldInv, Links, TypeOK
    <2>1. SaidIsDone' /\ \A p \in Sessions : CancelOK(p)'
      BY <1>2, <2>0, SaidStep, CancelOKStep
    <2>2. ASSUME NEW u \in Users, row'[u] # NoRow, row'[u].status = "canceled", row'[u].rzp # NoMandate
          PROVE  life'[row'[u].rzp] = "cancelled"
      <3>0. row'[u].rzp \in Mandates
        BY <2>0, <2>2 DEF Row
      <3>1. CASE row[u] # NoRow /\ row'[u].rzp = row[u].rzp /\ row'[u].status = row[u].status
        BY <1>2, <2>0, <2>2, <3>0, <3>1, LifeMoves DEF CanceledEnded
      <3>2. CASE row'[u] # row[u]
        <4>1. PICK p \in Sessions : sess[p].user = u /\ Written(p, u) /\ Held(p) /\ EventMatches(p)
          <5>1. PICK p \in Sessions : \A q \in Sessions : q = p
            <6>1. ~ UNCHANGED vars
              BY <3>2 DEF vars, dbVars
            <6>2. Sessions # {} \/ UNCHANGED row
              BY <1>2, <6>1 DEF Next, Sessions, Razorpay, RazorpayMoves, RazorpayRefunds, dbVars
            <6> QED
              BY <3>2, <6>2
          <5>2. Held(p) /\ EventMatches(p)
            BY <1>2 DEF HeldInv
          <5> QED
            BY <1>2, <2>0, <3>2, <5>1, <5>2, WrittenBy
        <4>2. ASSUME SubscribeCommit(p), row'[u] = Subscribed(p) PROVE FALSE
          BY <2>2, <4>2 DEF Subscribed
        <4>3. CASE /\ CancelCommit(p) /\ row[u] \in Row /\ row'[u].rzp = row[u].rzp
                   /\ row'[u].status = IF AtCycleEnd(row[u]) THEN row[u].status ELSE "canceled"
          <5>1. CASE AtCycleEnd(row[u])
            BY <3>1, <4>3, <5>1, BillingAssumption
          <5>2. CASE ~ AtCycleEnd(row[u])
            <6>1. sess[p].at = "cancel.commit" /\ sess[p].snap = row[u]
              BY <4>1, <4>3 DEF CancelCommit, Held, HeldPlaces
            <6>2. life[row[u].rzp] = "cancelled"
              BY <1>2, <5>2, <6>1 DEF CancelOK
            <6> QED
              BY <1>2, <2>0, <3>0, <4>3, <6>2, LifeMoves
          <5> QED
            BY <5>1, <5>2
        <4>4. CASE row[u] \in Row /\ row'[u] = [row[u] EXCEPT !.synced = TRUE]
          <5>1. row'[u].rzp = row[u].rzp /\ row'[u].status = row[u].status
            BY <4>4 DEF Row
          <5> QED
            BY <3>1, <4>4, <5>1, BillingAssumption
        <4>5. CASE /\ HookStatus(p) \/ HookCharged(p) \/ HookDowngrade(p)
                   /\ row[u].rzp = sess[p].ev.m /\ row'[u].rzp = row[u].rzp
                   /\ row'[u].status = StatusFor(sess[p].ev.kind)
          <5>1. sess[p].ev \in sent
            BY <2>0, <4>5, HookTypes DEF HookStatus, HookCharged, HookDowngrade, HookPlaces
          <5>2. sess[p].ev.kind = "cancelled"
            BY <2>2, <4>5 DEF HookStatus, HookCharged, HookDowngrade, StatusFor
          <5>3. life[sess[p].ev.m] = "cancelled"
            BY <1>2, <5>1, <5>2 DEF SaidIsDone
          <5> QED
            BY <1>2, <2>0, <3>0, <4>5, <5>3, LifeMoves
        <4> QED
          BY <2>2, <4>1, <4>2, <4>3, <4>4, <4>5 DEF Written
      <3> QED
        BY <2>2, <3>1, <3>2
    <2> QED
      BY <2>1, <2>2 DEF CanceledEnded
  <1>3. Inv => CanceledMeansEnded
    BY DEF CanceledEnded, CanceledMeansEnded, Ongoing
  <1> QED
    BY <1>1, <1>2, <1>3, HeldKept, PTL DEF Spec

\* A handler that will record a payment has found none.
DueOnce(p) ==
  /\ sess[p].at = "hook.commit" /\ sess[p].ev.kind = "charged" /\ ~ sess[p].dup =>
       hist[PayRow(sess[p].ev)] = 0
  /\ sess[p].at = "hook.insert" /\ sess[p].ev.pay # "none" => hist[PayRow(sess[p].ev)] = 0

\* Where requests come one at a time, a payment has one row in the billing
\* history, however often its webhook is relayed (_rzp_handle_charged,
\* _rzp_record_trial_verification): each looks for it before it inserts.
THEOREM PaymentRecordedOnceHolds ==
  ASSUME \A p, q \in Sessions : p = q
  PROVE  Spec => []PaymentRecordedOnce
  <1> DEFINE Inv == PaymentRecordedOnce /\ \A p \in Sessions : DueOnce(p)
  <1>1. Init => Inv
    BY DEF Init, PaymentRecordedOnce, DueOnce, Idle, PayKinds
  <1>2. ASSUME Links, Inv, [Next]_vars PROVE Inv'
    <2>0. /\ sess \in [Sessions -> SessionType] /\ sent \subseteq Event
          /\ hist \in [Mandates \X PayKinds -> 0 .. MaxRows] /\ MaxRows \in Nat \ {0}
      BY <1>2, BillingAssumption DEF Links, TypeOK
    <2>1. ASSUME NEW p \in Sessions, HookCharged(p) \/ HookInsert(p), hist' # hist
          PROVE  /\ AddPaymentRow(sess[p].ev) /\ PayRow(sess[p].ev) \in Mandates \X PayKinds
                 /\ sess[p].ev.pay # "none" => hist[PayRow(sess[p].ev)] = 0
                 /\ sess'[p].at \notin {"hook.commit", "hook.insert"}
      <3>1. PayRow(sess[p].ev) \in Mandates \X PayKinds
        BY <1>2, <2>1, HookTypes DEF HookCharged, HookInsert, HookPlaces, PayRow
      <3>2. CASE HookCharged(p)
        BY <1>2, <2>0, <2>1, <3>1, <3>2 DEF HookCharged, DueOnce, Goto, SessionType
      <3>3. CASE HookInsert(p)
        BY <1>2, <2>0, <3>1, <3>3 DEF HookInsert, DueOnce, Goto, SessionType
      <3> QED
        BY <2>1, <3>2, <3>3
    <2>2. hist' # hist => \E p \in Sessions : HookCharged(p) \/ HookInsert(p)
      BY <1>2 DEF Next, vars, dbVars, rzpVars, Sessions, Subscribe, Cancel, Grant, Sync, Hook, Razorpay,
         SubscribeLoad, SubscribeCancelOld, SubscribeCreate, SubscribeRefused, SubscribeCommit, CancelLoad,
         CancelHub, CancelCommit, GrantLoad, GrantCommit, SyncSelect, SyncLoad, SyncAccepted, SyncFailed,
         HookReceive, HookStatus, HookDowngrade, HookRefund, HookVerify, HookReport, HookNotify, Crash,
         RazorpayMoves, RazorpayRefunds
    <2>3. PaymentRecordedOnce'
      <3>1. CASE hist' = hist
        BY <1>2, <3>1 DEF PaymentRecordedOnce
      <3>2. CASE hist' # hist
        <4>1. PICK p \in Sessions : HookCharged(p) \/ HookInsert(p)
          BY <2>2, <3>2
        <4>2. PICK k \in Mandates \X PayKinds :
                /\ k = PayRow(sess[p].ev) /\ AddPaymentRow(sess[p].ev)
                /\ sess[p].ev.pay # "none" => hist[k] = 0
          BY <2>1, <3>2, <4>1
        <4>3. hist' = [hist EXCEPT ![k] = IF hist[k] < MaxRows THEN hist[k] + 1 ELSE hist[k]]
          BY <4>2 DEF AddPaymentRow
        <4>4. ASSUME NEW m \in Mandates, NEW x \in {"verification", "charge"}
              PROVE  hist'[<<m, x>>] <= 1
          <5>1. <<m, x>> \in Mandates \X PayKinds /\ hist[<<m, x>>] <= 1
            BY <1>2 DEF PaymentRecordedOnce, PayKinds
          <5>2. CASE <<m, x>> = k
            <6>1. sess[p].ev.pay = x
              BY <4>2, <5>2 DEF PayRow
            <6>2. hist[k] = 0
              BY <4>2, <6>1
            <6> QED
              BY <2>0, <4>3, <5>1, <5>2, <6>2
          <5>3. CASE <<m, x>> # k
            BY <2>0, <4>3, <5>1, <5>3
          <5> QED
            BY <5>2, <5>3
        <4> QED
          BY <4>4 DEF PaymentRecordedOnce
      <3> QED
        BY <3>1, <3>2
    <2>4. ASSUME NEW p \in Sessions PROVE DueOnce(p)'
      <3>1. CASE sess'[p] = sess[p]
        <4>1. hist' = hist
          <5>1. ASSUME hist' # hist PROVE FALSE
            <6>1. PICK q \in Sessions : HookCharged(q) \/ HookInsert(q)
              BY <2>2, <5>1
            <6>2. q = p /\ Acts(p)
              BY <6>1 DEF Acts, Hook
            <6> QED
              BY <1>2, <3>1, <6>2, ActsMove
          <5> QED
            BY <5>1
        <4> QED
          BY <1>2, <3>1, <4>1 DEF DueOnce
      <3>2. CASE sess'[p] # sess[p] /\ sess'[p].at \in {"hook.commit", "hook.insert"}
        <4>1. Goes(p)
          BY <1>2, <3>2, ActingSession DEF Idle
        <4>2. ASSUME NEW e \in sent, HookReceive(p, e) PROVE DueOnce(p)'
          <5>1. /\ sess'[p].at = "hook.commit" /\ sess'[p].ev = e /\ hist' = hist
                /\ sess'[p].dup = (e.kind = "charged" /\ AlreadyRecorded(e))
            <6>1. PICK u \in Users :
                    sess' = [sess EXCEPT ![p] =
                      [at |-> "hook.commit", user |-> u, snap |-> row[u], ev |-> e,
                       m |-> NoMandate, dup |-> e.kind = "charged" /\ AlreadyRecorded(e)]]
              BY <4>2 DEF HookReceive
            <6>2. sess'[p] = [at |-> "hook.commit", user |-> u, snap |-> row[u], ev |-> e,
                              m |-> NoMandate, dup |-> e.kind = "charged" /\ AlreadyRecorded(e)]
              BY <2>0, <6>1, Zenon
            <6>3. hist' = hist
              BY <4>2 DEF HookReceive, dbVars
            <6> QED
              BY <6>2, <6>3
          <5>2. PayRow(e) \in Mandates \X PayKinds
            BY <2>0 DEF PayRow, Event
          <5>3. hist[PayRow(e)] \in Nat
            BY <2>0, <5>2
          <5>4. e.kind = "charged" /\ ~ sess'[p].dup => ~ AlreadyRecorded(e)
            BY <5>1, Zenon
          <5>5. e.kind = "charged" /\ ~ sess'[p].dup => hist[PayRow(e)] = 0
            BY <5>3, <5>4 DEF AlreadyRecorded
          <5>6. sess'[p].ev = e /\ hist' = hist /\ sess'[p].at = "hook.commit"
            BY <5>1
          <5>7. sess'[p].ev.kind = "charged" /\ ~ sess'[p].dup => hist'[PayRow(sess'[p].ev)] = 0
            BY <5>5, <5>6
          <5> QED
            BY <5>6, <5>7 DEF DueOnce, PayRow
        <4>3. CASE HookVerify(p)
          <5>1. PayRow(sess[p].ev) \in Mandates \X PayKinds
            BY <1>2, <4>3, HookTypes DEF HookVerify, HookPlaces, PayRow
          <5>2. hist[PayRow(sess[p].ev)] \in Nat /\ hist' = hist
            BY <2>0, <4>3, <5>1 DEF HookVerify, dbVars
          <5>3. /\ Goto(p, "hook.insert")
                /\ sess[p].ev.pay = "none" \/ ~ AlreadyRecorded(sess[p].ev)
            BY <2>0, <3>2, <4>3 DEF HookVerify, Goto, Finish, Idle, SessionType
          <5>4. sess'[p].at = "hook.insert" /\ sess'[p].ev = sess[p].ev
            BY <2>0, <5>3 DEF Goto, SessionType
          <5> QED
            BY <5>2, <5>3, <5>4 DEF DueOnce, AlreadyRecorded
        <4>4. ASSUME NEW u \in Users,
                     SubscribeLoad(p, u) \/ CancelLoad(p, u) \/ GrantLoad(p, u) \/ SyncSelect(p, u)
              PROVE  FALSE
          <5>1. CASE SubscribeLoad(p, u)
            BY <2>0, <3>2, <5>1 DEF SubscribeLoad, Idle
          <5>2. CASE CancelLoad(p, u)
            BY <2>0, <3>2, <5>2 DEF CancelLoad, Idle
          <5>3. CASE GrantLoad(p, u)
            BY <2>0, <3>2, <5>3 DEF GrantLoad, Idle
          <5>4. CASE SyncSelect(p, u)
            BY <2>0, <3>2, <5>4 DEF SyncSelect, Idle
          <5> QED
            BY <4>4, <5>1, <5>2, <5>3, <5>4
        <4>5. ASSUME SubscribeCreate(p) \/ SyncLoad(p) PROVE FALSE
          <5>1. ASSUME NEW m, sess' = [sess EXCEPT ![p].at = "subscribe.commit", ![p].m = m]
                PROVE  sess'[p].at = "subscribe.commit"
            BY <2>0, <5>1 DEF SessionType
          <5>2. ASSUME NEW m, sess' = [sess EXCEPT ![p].at = "sync.report", ![p].snap = m]
                PROVE  sess'[p].at = "sync.report"
            BY <2>0, <5>2 DEF SessionType
          <5> QED
            BY <2>0, <3>2, <4>5, <5>1, <5>2 DEF SubscribeCreate, SyncLoad, Finish, Idle
        <4>6. ASSUME \/ SubscribeCancelOld(p) \/ CancelHub(p) \/ HookStatus(p) \/ HookCharged(p)
                     \/ HookDowngrade(p) \/ HookRefund(p) \/ HookInsert(p) \/ HookReport(p)
              PROVE  FALSE
          BY <2>0, <3>2, <4>6 DEF SubscribeCancelOld, CancelHub, HookStatus, HookCharged, HookDowngrade,
             HookRefund, HookInsert, HookReport, Goto, Finish, Idle, SessionType
        <4> QED
          BY <4>1, <4>2, <4>3, <4>4, <4>5, <4>6 DEF Goes
      <3>3. CASE sess'[p].at \notin {"hook.commit", "hook.insert"}
        BY <3>3 DEF DueOnce
      <3> QED
        BY <3>1, <3>2, <3>3
    <2> QED
      BY <2>3, <2>4
  <1> QED
    BY <1>1, <1>2, LinksInvariant, PTL DEF Spec

=============================================================================
