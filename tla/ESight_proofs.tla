---------------------------- MODULE ESight_proofs ----------------------------
(***************************************************************************)
(* Theorems about the renewal of the key that protects an eSight's         *)
(* password, for any number of console processes and threads, any bound on *)
(* renewals and on faults.  RefreshInv is the inductive invariant.         *)
(***************************************************************************)
EXTENDS ESight, TLAPS

\* The process lock and the mutex together let one thread renew at a time.
OneRefreshes ==
    \A t, u \in Thread : pc[t] \in Refreshing /\ pc[u] \in Refreshing => t = u

\* Unless a session was started again in between: the row follows the main key
\* but for the thread that renews it, which remembers the key of the row until
\* it has a copy of the row for the new one.
RowFollowsKey ==
    ~crossed =>
        /\ (\A t \in Thread : pc[t] \notin {"rekey", "save"}) => stored = mainKey
        /\ \A t \in Thread : pc[t] = "rekey" => stored = seen[t]
        /\ \A t \in Thread : pc[t] = "save" => pwd[home[t]] = mainKey

RefreshInv ==
    /\ TypeOK
    /\ OneRefreshes
    /\ RowFollowsKey

\* What TypeOK says of the session, of the threads and of the shared state.
SessionOK ==
    /\ pwd \in [Process -> Key]
    /\ online \in [Process -> BOOLEAN]
    /\ openid \in [Process -> Id \cup {NoId}]
    /\ header \in [Process -> Id \cup {NoId}]

ThreadsOK ==
    /\ pc \in [Thread -> Label]
    /\ back \in [Thread -> {"call", "head", "resend", "idle"}]
    /\ seen \in [Thread -> Key]
    /\ home \in [Thread -> Process]

SharedOK ==
    /\ mainKey \in Key /\ stored \in Key /\ mutex \in Process \cup {NoProcess}
    /\ valid \in [Process -> SUBSET Id]
    /\ faults \in 0..MaxFaults /\ crossed \in BOOLEAN

\* Who renews has the mutex.
HasMutex == \A t \in Thread : pc[t] \in Refreshing => mutex = home[t]

LEMMA TypeParts == TypeOK <=> SessionOK /\ ThreadsOK /\ SharedOK /\ HasMutex
  BY DEF TypeOK, SessionOK, ThreadsOK, SharedOK, HasMutex

LEMMA TypePartsNext == SessionOK' /\ ThreadsOK' /\ SharedOK' /\ HasMutex' => TypeOK'
  BY DEF TypeOK, SessionOK, ThreadsOK, SharedOK, HasMutex

-----------------------------------------------------------------------------
\* Initially the invariant holds.
LEMMA InitRefreshInv == Init => RefreshInv
<1> SUFFICES ASSUME Init PROVE RefreshInv
  OBVIOUS
<1> USE ESightAssumption DEF Init
<1>1. SessionOK
  BY DEF SessionOK, Key, NoId
<1>2. ThreadsOK
  BY DEF ThreadsOK, Key, Label
<1>3. SharedOK
  <2>1. valid \in [Process -> SUBSET Id]
    OBVIOUS
  <2>2. 0 \in Key /\ 0 \in 0..MaxFaults
    BY DEF Key
  <2> QED
    BY <2>1, <2>2 DEF SharedOK
<1>4. HasMutex /\ OneRefreshes
  BY DEF HasMutex, OneRefreshes, Refreshing
<1>5. RowFollowsKey
  BY DEF RowFollowsKey
<1> QED
  BY <1>1, <1>2, <1>3, <1>4, <1>5, TypeParts DEF RefreshInv

\* A step of a thread that is not in a renewal, nor begins one, and leaves the
\* keys and the mutex alone.
LEMMA ElsewhereStep ==
    ASSUME RefreshInv, SessionOK', ThreadsOK', SharedOK', NEW t \in Thread,
           UNCHANGED <<mainKey, stored, mutex, home>>,
           pc[t] \notin Refreshing, pc'[t] \notin Refreshing,
           \A u \in Thread \ {t} : pc'[u] = pc[u] /\ seen'[u] = seen[u],
           ~crossed' => /\ ~crossed
                        /\ \A u \in Thread : pc[u] = "save" =>
                              pwd'[home[u]] = pwd[home[u]]
    PROVE  RefreshInv'
<1> USE DEF RefreshInv
<1>1. \A u \in Thread : pc'[u] \in Refreshing => pc[u] \in Refreshing
  OBVIOUS
<1>2. HasMutex' /\ OneRefreshes'
  BY <1>1, TypeParts DEF HasMutex, OneRefreshes
<1>3. TypeOK'
  BY <1>2, TypePartsNext
<1>4. pc[t] \notin {"rekey", "save"} /\ pc'[t] \notin {"rekey", "save"}
  BY DEF Refreshing
<1>5. RowFollowsKey'
  BY <1>4 DEF RowFollowsKey
<1> QED
  BY <1>2, <1>3, <1>5

\* A thread's program counter moves.
LEMMA GotoType ==
    ASSUME ThreadsOK, NEW t \in Thread, NEW l \in Label, Goto(t, l)
    PROVE  /\ pc' \in [Thread -> Label] /\ pc'[t] = l
           /\ \A u \in Thread \ {t} : pc'[u] = pc[u]
  BY DEF ThreadsOK, Goto

-----------------------------------------------------------------------------
(* The steps outside of a renewal.                                         *)

\* What such a step needs to keep in mind of the types.
Quiet(t) ==
    /\ UNCHANGED <<mainKey, stored, mutex, home>>
    /\ pc[t] \notin Refreshing /\ pc'[t] \notin Refreshing
    /\ \A u \in Thread \ {t} : pc'[u] = pc[u] /\ seen'[u] = seen[u]

LEMMA CallInv ==
    ASSUME RefreshInv, NEW t \in Thread,
           Call(t) \/ SkipRefresh(t)
    PROVE  RefreshInv'
<1> USE TypeParts DEF RefreshInv
<1>1. PICK l \in {"find", "refresh"} : Goto(t, l)
  BY DEF Call, SkipRefresh
<1>2. l \in Label /\ l \notin Refreshing
  BY DEF Label, Refreshing
<1>3. /\ UNCHANGED <<session, shared, back, seen, valid, faults, crossed, home>>
      /\ pc[t] \in {"idle", "ok", "refresh"}
  BY DEF Call, SkipRefresh, At
<1>4. ThreadsOK' /\ Quiet(t)
  BY <1>1, <1>2, <1>3, GotoType DEF ThreadsOK, Quiet, Refreshing, shared
<1>5. SessionOK' /\ SharedOK'
  BY <1>3 DEF SessionOK, SharedOK, session, shared
<1> QED
  BY <1>3, <1>4, <1>5, ElsewhereStep DEF Quiet, session

LEMMA FindInv ==
    ASSUME RefreshInv, NEW t \in Thread, FindByIP(t)
    PROVE  RefreshInv'
<1> USE TypeParts DEF RefreshInv
<1>1. Goto(t, "compare") /\ "compare" \in Label
  BY DEF FindByIP, Label
<1>2. ThreadsOK' /\ Quiet(t)
  BY <1>1, GotoType DEF FindByIP, ThreadsOK, SharedOK, Quiet, Refreshing, shared, At
<1>3. SessionOK' /\ SharedOK'
  BY DEF FindByIP, SessionOK, SharedOK, session, shared
<1> QED
  BY <1>2, <1>3, ElsewhereStep DEF FindByIP, Quiet, session

LEMMA CompareInv ==
    ASSUME RefreshInv, NEW t \in Thread, Compare(t)
    PROVE  RefreshInv'
<1> USE TypeParts DEF RefreshInv
<1>1. Goto(t, "open") /\ "open" \in Label /\ 0 \in Key
  BY ESightAssumption DEF Compare, Label, Key
<1>2. ThreadsOK' /\ Quiet(t)
  BY <1>1, GotoType DEF Compare, ThreadsOK, Quiet, Refreshing, shared, At
<1>3. home[t] \in Process /\ seen[t] \in Key
  BY DEF ThreadsOK
<1>4. SessionOK'
  BY <1>3 DEF Compare, SessionOK, InitESight
<1>5. SharedOK'
  BY DEF Compare, SharedOK, InitESight, shared
<1>6. ~crossed' => /\ ~crossed
                   /\ \A u \in Thread : pc[u] = "save" =>
                          pwd'[home[u]] = pwd[home[u]]
  <2>1. CASE InitESight(t)
    <3>1. ~crossed' => ~crossed /\ \A u \in Thread : pc[u] = "save" => home[u] # home[t]
      BY <2>1 DEF InitESight, At
    <3>2. \A p \in Process : p # home[t] => pwd'[p] = pwd[p]
      BY <2>1 DEF InitESight, SessionOK
    <3> QED
      BY <3>1, <3>2 DEF ThreadsOK
  <2>2. CASE UNCHANGED <<pwd, online, crossed>>
    BY <2>2
  <2> QED
    BY <2>1, <2>2 DEF Compare
<1> QED
  BY <1>2, <1>4, <1>5, <1>6, ElsewhereStep DEF Quiet

LEMMA OpenInv ==
    ASSUME RefreshInv, NEW t \in Thread, Open(t) \/ Send(t)
    PROVE  RefreshInv'
<1> USE TypeParts DEF RefreshInv
<1>1. PICK l \in {"call", "head", "ok", "login"} : Goto(t, l)
  BY DEF Open, OpenThen, Send, Answered
<1>2. l \in Label /\ l \notin Refreshing
  BY DEF Label, Refreshing
<1>3. /\ UNCHANGED <<session, shared, seen, valid, faults, crossed, home>>
      /\ pc[t] \in {"open", "call", "send", "resend"}
  BY DEF Open, OpenThen, Send, Answered, At
<1>4. back' \in [Thread -> {"call", "head", "resend", "idle"}]
  BY DEF Open, OpenThen, Send, Answered, ThreadsOK
<1>5. ThreadsOK' /\ Quiet(t)
  BY <1>1, <1>2, <1>3, <1>4, GotoType DEF ThreadsOK, Quiet, Refreshing, shared
<1>6. SessionOK' /\ SharedOK'
  BY <1>3 DEF SessionOK, SharedOK, session, shared
<1> QED
  BY <1>3, <1>5, <1>6, ElsewhereStep DEF Quiet, session

LEMMA HeadInv ==
    ASSUME RefreshInv, NEW t \in Thread, InitHCHead(t) \/ InitHC(t) \/ GetLoginParam(t)
    PROVE  RefreshInv'
<1> USE TypeParts DEF RefreshInv
<1>1. PICK l \in {"param", "sign", "answer", "send", "idle"} : Goto(t, l)
  BY DEF InitHCHead, InitHC, GetLoginParam
<1>2. l \in Label /\ l \notin Refreshing
  BY DEF Label, Refreshing
<1>3. /\ UNCHANGED <<pwd, online, openid, shared, seen, valid, faults, crossed, home>>
      /\ pc[t] \in {"head", "login", "param", "sign"} /\ home[t] \in Process
  BY DEF InitHCHead, InitHC, GetLoginParam, At, ThreadsOK, session
<1>4. back' \in [Thread -> {"call", "head", "resend", "idle"}]
  BY DEF InitHCHead, InitHC, GetLoginParam, ThreadsOK
<1>5. ThreadsOK' /\ Quiet(t)
  BY <1>1, <1>2, <1>3, <1>4, GotoType DEF ThreadsOK, Quiet, Refreshing, shared
<1>6. \/ UNCHANGED header
      \/ \E h \in {openid[home[t]], NoId} : header' = [header EXCEPT ![home[t]] = h]
  BY DEF InitHCHead, InitHC, GetLoginParam, session
<1>7. SessionOK'
  BY <1>3, <1>6 DEF SessionOK
<1>8. SharedOK'
  BY <1>3 DEF SharedOK, shared
<1> QED
  BY <1>3, <1>5, <1>7, <1>8, ElsewhereStep DEF Quiet

LEMMA LoginInv ==
    ASSUME RefreshInv, NEW t \in Thread,
           LoggedIn(t) \/ LoginFails(t) \/ RequestFails(t)
    PROVE  RefreshInv'
<1> USE TypeParts DEF RefreshInv
<1>1. PICK l \in {"call", "head", "resend", "idle"} : Goto(t, l)
  BY DEF LoggedIn, LoginFails, RequestFails, ThreadsOK
<1>2. l \in Label /\ l \notin Refreshing
  BY DEF Label, Refreshing
<1>3. /\ UNCHANGED <<pwd, header, shared, seen, crossed, home>>
      /\ pc[t] \in {"answer", "send", "resend"} /\ home[t] \in Process
  BY DEF LoggedIn, LoginFails, RequestFails, At, ThreadsOK, session
<1>4. back' \in [Thread -> {"call", "head", "resend", "idle"}]
  BY DEF LoggedIn, LoginFails, RequestFails, ThreadsOK
<1>5. ThreadsOK' /\ Quiet(t)
  BY <1>1, <1>2, <1>3, <1>4, GotoType DEF ThreadsOK, Quiet, Refreshing, shared
<1>6. (CHOOSE id \in Id : id # header[home[t]]) \in Id
  BY DEF Id
<1>7. SessionOK'
  <2>1. CASE LoggedIn(t)
    BY <2>1, <1>3, <1>6 DEF SessionOK, LoggedIn
  <2>2. CASE LoginFails(t) \/ RequestFails(t)
    BY <2>2, <1>3 DEF SessionOK, LoginFails, RequestFails, session
  <2> QED
    BY <2>1, <2>2
<1>8. SharedOK'
  <2>1. valid' \in [Process -> SUBSET Id]
    <3>1. CASE LoggedIn(t)
      <4>1. (valid[home[t]] \cap {header[home[t]]})
               \cup {CHOOSE id \in Id : id # header[home[t]]} \in SUBSET Id
        BY <1>3, <1>6 DEF SharedOK
      <4> QED
        BY <1>3, <3>1, <4>1 DEF SharedOK, LoggedIn
    <3>2. CASE LoginFails(t) \/ RequestFails(t)
      BY <3>2 DEF SharedOK, LoginFails, RequestFails
    <3> QED
      BY <3>1, <3>2
  <2>2. faults' \in 0..MaxFaults
    BY ESightAssumption DEF SharedOK, LoggedIn, LoginFails, RequestFails
  <2> QED
    BY <1>3, <2>1, <2>2 DEF SharedOK, shared
<1> QED
  BY <1>3, <1>5, <1>7, <1>8, ElsewhereStep DEF Quiet

-----------------------------------------------------------------------------
(* The steps of a renewal.                                                 *)

\* Who begins, alone from then on, finds the row and the key as they belong
\* together.
LEMMA BeginInv ==
    ASSUME RefreshInv, NEW t \in Thread, BeginRefresh(t)
    PROVE  RefreshInv'
<1> USE TypeParts DEF RefreshInv
<1>1. Goto(t, "key") /\ "key" \in Label /\ home[t] \in Process
  BY DEF BeginRefresh, Label, Refreshing, ThreadsOK
<1>2. ThreadsOK'
  BY <1>1, GotoType DEF BeginRefresh, ThreadsOK
<1>3. SessionOK' /\ SharedOK'
  BY <1>1 DEF BeginRefresh, SessionOK, SharedOK, session
<1>4. \A u \in Thread : pc[u] \notin Refreshing
  BY ESightAssumption DEF BeginRefresh, MayRefresh, HasMutex, ThreadsOK
<1>5. \A u \in Thread : pc'[u] \in Refreshing => u = t
  BY <1>1, <1>4, GotoType
<1>6. HasMutex' /\ OneRefreshes'
  BY <1>5 DEF BeginRefresh, HasMutex, OneRefreshes
<1>7. \A u \in Thread : /\ pc[u] \notin {"rekey", "save"}
                       /\ pc'[u] \notin {"rekey", "save"}
  BY <1>1, <1>4, GotoType DEF Refreshing
<1>8. RowFollowsKey'
  BY <1>7 DEF BeginRefresh, RowFollowsKey
<1> QED
  BY <1>2, <1>3, <1>6, <1>8, TypePartsNext

\* While a thread renews, no other one does, before or after its step.
LEMMA AloneStep ==
    ASSUME RefreshInv, NEW t \in Thread, pc[t] \in Refreshing,
           \A u \in Thread \ {t} : pc'[u] = pc[u],
           UNCHANGED home,
           pc'[t] \in Refreshing => UNCHANGED mutex
    PROVE  /\ \A u \in Thread \ {t} : /\ pc[u] \notin Refreshing
                                      /\ pc'[u] \notin Refreshing
           /\ HasMutex' /\ OneRefreshes'
<1>1. \A u \in Thread \ {t} : pc[u] \notin Refreshing /\ pc'[u] \notin Refreshing
  BY DEF RefreshInv, OneRefreshes
<1> QED
  BY <1>1, TypeParts DEF RefreshInv, HasMutex, OneRefreshes

LEMMA NewKeyInv ==
    ASSUME RefreshInv, NEW t \in Thread, NewKey(t)
    PROVE  RefreshInv'
<1> USE TypeParts DEF RefreshInv
<1>1. PICK l \in {"find", "rekey"} : Goto(t, l)
  BY DEF NewKey
<1>2. /\ l \in Label /\ pc[t] = "key" /\ pc[t] \in Refreshing
      /\ pc[t] \notin {"rekey", "save"}
  BY DEF NewKey, Label, Refreshing, At
<1>3. /\ pc' \in [Thread -> Label] /\ pc'[t] = l
      /\ \A u \in Thread \ {t} : pc'[u] = pc[u]
  BY <1>1, <1>2, GotoType
<1>4. ThreadsOK'
  BY <1>3 DEF NewKey, ThreadsOK, SharedOK
<1>5. SessionOK'
  BY DEF NewKey, SessionOK, session
<1>6. SharedOK'
  <2>1. mainKey' \in Key
    BY ESightAssumption DEF NewKey, SharedOK, Key
  <2> QED
    BY <2>1 DEF NewKey, SharedOK
<1>7. pc'[t] \in Refreshing => UNCHANGED mutex
  BY <1>3 DEF NewKey, Refreshing, Goto, ThreadsOK
<1>8. UNCHANGED home
  BY DEF NewKey
<1>9. /\ \A u \in Thread \ {t} : pc[u] \notin Refreshing /\ pc'[u] \notin Refreshing
      /\ HasMutex' /\ OneRefreshes'
  BY <1>2, <1>3, <1>7, <1>8, AloneStep
<1>10. \A u \in Thread \ {t} : /\ pc[u] \notin {"rekey", "save"}
                              /\ pc'[u] \notin {"rekey", "save"}
  BY <1>9 DEF Refreshing
<1>11. ~crossed => stored = mainKey
  BY <1>2, <1>10 DEF RowFollowsKey
<1>12. /\ UNCHANGED <<stored, crossed, pwd>>
       /\ \/ pc'[t] = "find" /\ UNCHANGED mainKey
          \/ pc'[t] = "rekey" /\ seen'[t] = mainKey
  BY DEF NewKey, Goto, ThreadsOK, session
<1>13. RowFollowsKey'
  BY <1>10, <1>11, <1>12 DEF RowFollowsKey
<1> QED
  BY <1>4, <1>5, <1>6, <1>9, <1>13, TypePartsNext

\* The row is encrypted with the key that the thread remembers, unless it was
\* crossed: then nothing is asked of it any more.
LEMMA ReencryptInv ==
    ASSUME RefreshInv, NEW t \in Thread, Reencrypt(t)
    PROVE  RefreshInv'
<1> USE TypeParts DEF RefreshInv
<1>1. PICK l \in {"idle", "save"} : Goto(t, l)
  BY DEF Reencrypt
<1>2. l \in Label /\ pc[t] = "rekey" /\ pc[t] \in Refreshing
  BY DEF Reencrypt, Label, Refreshing, At
<1>3. /\ pc' \in [Thread -> Label] /\ pc'[t] = l
      /\ \A u \in Thread \ {t} : pc'[u] = pc[u]
  BY <1>1, <1>2, GotoType
<1>4. home[t] \in Process /\ mainKey \in Key /\ 0 \in Key
  BY ESightAssumption DEF ThreadsOK, SharedOK, Key
<1>5. ThreadsOK'
  BY <1>3, <1>4 DEF Reencrypt, ThreadsOK
<1>6. SessionOK' /\ SharedOK'
  BY <1>4 DEF Reencrypt, SessionOK, SharedOK
<1>7. pc'[t] \in Refreshing => UNCHANGED mutex
  BY <1>3 DEF Reencrypt, Refreshing, Goto, ThreadsOK
<1>8. UNCHANGED home
  BY DEF Reencrypt
<1>9. /\ \A u \in Thread \ {t} : pc[u] \notin Refreshing /\ pc'[u] \notin Refreshing
      /\ HasMutex' /\ OneRefreshes'
  BY <1>2, <1>3, <1>7, <1>8, AloneStep
<1>10. \A u \in Thread \ {t} : pc'[u] \notin {"rekey", "save"}
  BY <1>9 DEF Refreshing
<1>11. ~crossed => stored = seen[t]
  BY <1>2 DEF RowFollowsKey
<1>12. stored = seen[t] => pc'[t] = "save" /\ pwd'[home[t]] = mainKey
  BY <1>4 DEF Reencrypt, Goto, ThreadsOK, SessionOK
<1>13. UNCHANGED <<crossed, mainKey, home>>
  BY DEF Reencrypt
<1>14. RowFollowsKey'
  BY <1>10, <1>11, <1>12, <1>13 DEF RowFollowsKey
<1> QED
  BY <1>5, <1>6, <1>9, <1>14, TypePartsNext

LEMMA SaveInv ==
    ASSUME RefreshInv, NEW t \in Thread, SaveToDB(t)
    PROVE  RefreshInv'
<1> USE TypeParts DEF RefreshInv
<1>1. /\ Goto(t, "find") /\ "find" \in Label /\ "find" \notin Refreshing
      /\ pc[t] = "save" /\ pc[t] \in Refreshing
  BY DEF SaveToDB, Label, Refreshing, At
<1>2. /\ pc' \in [Thread -> Label] /\ pc'[t] = "find"
      /\ \A u \in Thread \ {t} : pc'[u] = pc[u]
  BY <1>1, GotoType
<1>3. home[t] \in Process
  BY DEF ThreadsOK
<1>4. ThreadsOK'
  BY <1>2 DEF SaveToDB, ThreadsOK
<1>5. SessionOK' /\ SharedOK'
  BY <1>3 DEF SaveToDB, SessionOK, SharedOK, session
<1>6. pc'[t] \notin Refreshing /\ UNCHANGED home
  BY <1>1, <1>2 DEF SaveToDB
<1>7. /\ \A u \in Thread \ {t} : pc[u] \notin Refreshing /\ pc'[u] \notin Refreshing
      /\ HasMutex' /\ OneRefreshes'
  BY <1>1, <1>2, <1>6, AloneStep
<1>8. \A u \in Thread : pc'[u] \notin {"rekey", "save"}
  BY <1>2, <1>7 DEF Refreshing
<1>9. ~crossed' => stored' = mainKey'
  BY <1>1 DEF SaveToDB, RowFollowsKey
<1>10. RowFollowsKey'
  BY <1>8, <1>9 DEF RowFollowsKey
<1> QED
  BY <1>4, <1>5, <1>7, <1>10, TypePartsNext

-----------------------------------------------------------------------------
\* Every step of the specification keeps the invariant.
LEMMA RefreshInvInductive == RefreshInv /\ [Next]_vars => RefreshInv'
<1> SUFFICES ASSUME RefreshInv, [Next]_vars PROVE RefreshInv'
  OBVIOUS
<1>1. CASE Expire
  <2> USE TypeParts DEF RefreshInv
  <2>1. /\ UNCHANGED <<session, shared, local, crossed>>
        /\ faults' \in 0..MaxFaults
    BY <1>1, ESightAssumption DEF Expire, SharedOK
  <2>2. valid' \in [Process -> SUBSET Id]
    BY <1>1 DEF Expire, SharedOK
  <2>3. SessionOK' /\ ThreadsOK' /\ SharedOK' /\ HasMutex'
    BY <2>1, <2>2 DEF SessionOK, ThreadsOK, SharedOK, HasMutex, session, shared, local
  <2>4. OneRefreshes' /\ RowFollowsKey'
    BY <2>1 DEF OneRefreshes, RowFollowsKey, session, shared, local
  <2> QED
    BY <2>3, <2>4, TypePartsNext
<1>2. CASE UNCHANGED vars
  BY <1>2 DEF vars, session, shared, local, RefreshInv, TypeOK, OneRefreshes,
              RowFollowsKey
<1> QED
  BY <1>1, <1>2, CallInv, FindInv, CompareInv, OpenInv, HeadInv, LoginInv,
     BeginInv, NewKeyInv, ReencryptInv, SaveInv DEF Next, Step

LEMMA RefreshInvAlways == Spec => []RefreshInv
  BY InitRefreshInv, RefreshInvInductive, PTL DEF Spec

\* The variables keep their types, and who renews the key has the mutex,
\* whatever the constants are.
THEOREM ESightTypeCorrect == Spec => []TypeOK
  BY RefreshInvAlways, PTL DEF RefreshInv

\* The password in the database can be decrypted whenever no renewal is under
\* way, unless a renewal was crossed, for any number of processes and threads.
THEOREM PasswordReadableHolds == Spec => []PasswordReadable
<1>1. RefreshInv => PasswordReadable
  <2> SUFFICES ASSUME RefreshInv, mutex = NoProcess, ~crossed
               PROVE  stored = mainKey
    BY DEF PasswordReadable
  <2>1. \A t \in Thread : pc[t] \notin Refreshing
    BY ESightAssumption, TypeParts DEF RefreshInv, HasMutex, ThreadsOK
  <2> QED
    BY <2>1 DEF RefreshInv, RowFollowsKey, Refreshing
<1> QED
  BY <1>1, RefreshInvAlways, PTL

=============================================================================
