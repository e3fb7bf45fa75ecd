------------------------------- MODULE ESight -------------------------------
(***************************************************************************)
(* The SCCM plug-in's sessions with one eSight (ESSession.cs) and the       *)
(* renewal of the key that protects its password (ESightEngine.cs).        *)
(*                                                                         *)
(* Every console process keeps one session of the eSight, which its        *)
(* threads share without a lock: the login's openid, the HTTP client with  *)
(* the header made of it, and a copy of the database row.  The row and the *)
(* key are shared by the processes.  A password is modelled by the key it  *)
(* is encrypted with: only the present main key decrypts it.               *)
(***************************************************************************)
EXTENDS Naturals, FiniteSets

CONSTANTS Process,      \* the console processes
          Thread,       \* their threads
          MaxKeys,      \* bound: renewals of the main key
          MaxFaults     \* bound: openids the eSight ends, failed logins and requests

NoProcess == "none"

ASSUME ESightAssumption ==
    /\ NoProcess \notin Process
    /\ MaxKeys \in Nat /\ MaxFaults \in Nat

NoId == 0
\* The openids of one process's logins: one that neither its session nor its
\* client refers to any more may stand for a new one.
Id == {1, 2}
Key == 0..MaxKeys

VARIABLES mainKey,   \* the key in the key file
          stored,    \* the database row: the key of its password
          mutex,     \* the process that owns "huawei.sccmplugin.engine"
          pwd,       \* the copies in the sessions: the key of LoginPwd
          online,    \* LatestStatus is ONLINE (and _isOpen)
          openid,    \* _openID
          header,    \* the header "openid" of HClient
          pc, back,  \* where a thread is; where it returns to after TryOpen
          seen,      \* what it has read: the row's key, or the old main key
          valid,     \* the openids of a process that the eSight accepts
          faults, crossed,
          home       \* the process of a thread: two may share a session, or none

session == <<pwd, online, openid, header>>
shared == <<mainKey, stored, mutex>>
local == <<pc, back, seen, home>>
vars == <<session, shared, local, valid, faults, crossed, home>>

Refreshing == {"key", "rekey", "save"}
Label == {"idle", "refresh", "find", "compare", "open", "call", "head", "send",
          "resend", "login", "param", "sign", "answer", "ok"} \cup Refreshing

Init == /\ mainKey = 0 /\ stored = 0 /\ mutex = NoProcess
        /\ pwd = [p \in Process |-> 0]
        /\ online = [p \in Process |-> FALSE]
        /\ openid = [p \in Process |-> NoId]
        /\ header = [p \in Process |-> NoId]
        /\ pc = [t \in Thread |-> "idle"]
        /\ back = [t \in Thread |-> "call"]
        /\ seen = [t \in Thread |-> 0]
        /\ valid = [p \in Process |-> {}]
        /\ home \in [Thread -> Process]
        /\ faults = 0 /\ crossed = FALSE

Goto(t, l) == pc' = [pc EXCEPT ![t] = l]
At(t, l) == pc[t] = l

-----------------------------------------------------------------------------
\* ESightEngine.Instance: a key of another version, or older than 30 days, is
\* renewed first (CheckAndUpgradeKey).
Call(t) == /\ pc[t] \in {"idle", "ok"}
           /\ \/ Goto(t, "find")
              \/ mainKey < MaxKeys /\ Goto(t, "refresh")
           /\ UNCHANGED <<session, shared, back, seen, valid, faults, crossed, home>>

\* Mutant: only the lock of the process.
MutMayRefresh(t) == \A u \in Thread : home[u] = home[t] => pc[u] \notin Refreshing

\* lock (_lockRefreshPwds), then the mutex of all processes.  A process holds
\* it until it has closed its handle: nothing else releases it.
MayRefresh(t) == /\ \A u \in Thread : home[u] = home[t] => pc[u] \notin Refreshing
                 /\ mutex = NoProcess

BeginRefresh(t) == /\ At(t, "refresh") /\ MayRefresh(t)
                   /\ mutex' = home[t]
                   /\ Goto(t, "key")
                   /\ UNCHANGED <<session, mainKey, stored, back, seen, valid, faults, crossed, home>>

\* WaitOne gives up after 60 s, and the call goes on with the key as it is.
SkipRefresh(t) == /\ At(t, "refresh") /\ mutex \notin {NoProcess, home[t]}
                  /\ Goto(t, "find")
                  /\ UNCHANGED <<session, shared, back, seen, valid, faults, crossed, home>>

\* The old key is read and a new one made; the bound also stops renewals that
\* were found due before the last one.
NewKey(t) == /\ At(t, "key")
             /\ IF mainKey = MaxKeys
                THEN Goto(t, "find") /\ mutex' = NoProcess /\ UNCHANGED <<mainKey, seen>>
                ELSE /\ Goto(t, "rekey")
                     /\ seen' = [seen EXCEPT ![t] = mainKey]
                     /\ mainKey' = mainKey + 1
                     /\ UNCHANGED mutex
             /\ UNCHANGED <<session, stored, back, valid, faults, crossed, home>>

\* The row's password is decrypted with the old key, encrypted with the new
\* one, and put into this process's session.
Reencrypt(t) == /\ At(t, "rekey")
                /\ IF stored = seen[t]
                   THEN /\ pwd' = [pwd EXCEPT ![home[t]] = mainKey]
                        /\ Goto(t, "save") /\ UNCHANGED mutex
                   ELSE Goto(t, "idle") /\ mutex' = NoProcess /\ UNCHANGED pwd
                /\ seen' = [seen EXCEPT ![t] = 0]
                /\ UNCHANGED <<online, openid, header, mainKey, stored,
                               back, valid, faults, crossed, home>>

\* SaveToDB writes whatever row the session holds by now.
SaveToDB(t) == /\ At(t, "save")
               /\ stored' = pwd[home[t]]
               /\ mutex' = NoProcess
               /\ Goto(t, "find")
               /\ UNCHANGED <<session, mainKey, back, seen, valid, faults, crossed, home>>

-----------------------------------------------------------------------------
\* FindAndOpenESSession reads the row, compares it with the session's copy
\* (IsSameESightHost) and starts the session again when they differ.
FindByIP(t) == /\ At(t, "find")
               /\ seen' = [seen EXCEPT ![t] = stored]
               /\ Goto(t, "compare")
               /\ UNCHANGED <<session, shared, back, valid, faults, crossed, home>>

\* Mutant: a row that was changed by another process is not noticed.
MutSame(t) == TRUE
Same(t) == seen[t] = pwd[home[t]]

InitESight(t) == /\ pwd' = [pwd EXCEPT ![home[t]] = seen[t]]
                 /\ online' = [online EXCEPT ![home[t]] = FALSE]
                 /\ crossed' = (crossed \/ \E u \in Thread : home[u] = home[t] /\ At(u, "save"))

Compare(t) == /\ At(t, "compare") /\ Goto(t, "open")
              /\ IF Same(t) THEN UNCHANGED <<pwd, online, crossed>> ELSE InitESight(t)
              /\ seen' = [seen EXCEPT ![t] = 0]
              /\ UNCHANGED <<openid, header, shared, back, valid, faults, home>>

\* Open: TryOpen unless connected.  A login may be too old whenever its age is
\* looked at (IsTimeout).
OpenThen(t, next) ==
    /\ \/ online[home[t]] /\ Goto(t, next) /\ UNCHANGED back
       \/ Goto(t, "login") /\ back' = [back EXCEPT ![t] = next]
    /\ UNCHANGED <<session, shared, seen, valid, faults, crossed, home>>

\* Once in FindAndOpenESSession, once more in the call itself (HCGet, ...).
Open(t) == \/ At(t, "open") /\ OpenThen(t, "call")
           \/ At(t, "call") /\ OpenThen(t, "head")

\* A request, the login too, is sent with the client's header, which is made
\* of the openid that the session has by now.
InitHCHead(t) ==
    /\ \/ At(t, "head") /\ Goto(t, "send")
       \/ At(t, "sign") /\ Goto(t, "answer")
    /\ IF openid[home[t]] = NoId
       THEN UNCHANGED header
       ELSE header' = [header EXCEPT ![home[t]] = openid[home[t]]]
    /\ UNCHANGED <<pwd, online, openid, shared, back, seen, valid, faults, crossed, home>>

\* The eSight answers a request, or asks for a login (HW_LOGIN_AUTH); the loop
\* then logs in, also after its second attempt.
Answered(t, again) ==
    /\ IF header[home[t]] \in valid[home[t]]
       THEN Goto(t, "ok") /\ UNCHANGED back
       ELSE Goto(t, "login") /\ back' = [back EXCEPT ![t] = again]
    /\ UNCHANGED <<session, shared, seen, valid, faults, crossed, home>>

Send(t) == \/ At(t, "send") /\ Answered(t, "resend")
           \/ At(t, "resend") /\ Answered(t, "idle")

-----------------------------------------------------------------------------
\* TryOpen: first a new client, without a header, takes the place of the one
\* that all the threads of the process send with.
InitHC(t) == /\ At(t, "login") /\ Goto(t, "param")
             /\ header' = [header EXCEPT ![home[t]] = NoId]
             /\ UNCHANGED <<pwd, online, openid, shared, back, seen, valid, faults, crossed, home>>

\* Then the password is decrypted, or the call throws, and the local address
\* is looked up; the login is signed (InitHCHead) and sent.
GetLoginParam(t) ==
    /\ At(t, "param")
    /\ \/ /\ pwd[home[t]] = mainKey
          /\ Goto(t, "sign") /\ UNCHANGED back
       \/ /\ pwd[home[t]] # mainKey
          /\ Goto(t, "idle") /\ back' = [back EXCEPT ![t] = "call"]
    /\ UNCHANGED <<session, shared, seen, valid, faults, crossed, home>>

\* ChkOpenResult of a login that was accepted.
LoggedIn(t) ==
    LET p == home[t]
        new == CHOOSE id \in Id : id # header[p]
    IN  /\ At(t, "answer")
        /\ valid' = [valid EXCEPT ![p] = (@ \cap {header[p]}) \cup {new}]
        /\ openid' = [openid EXCEPT ![p] = new]
        /\ online' = [online EXCEPT ![p] = TRUE]
        /\ Goto(t, back[t])
        /\ back' = [back EXCEPT ![t] = "call"]
        /\ UNCHANGED <<pwd, header, shared, seen, faults, crossed, home>>

\* It was refused (LATEST_STATUS_FAILED), or there was no answer at all.
LoginFails(t) ==
    /\ At(t, "answer") /\ faults < MaxFaults
    /\ faults' = faults + 1
    /\ Goto(t, "idle")
    /\ back' = [back EXCEPT ![t] = "call"]
    /\ \/ online' = [online EXCEPT ![home[t]] = FALSE]
       \/ UNCHANGED online
    /\ UNCHANGED <<pwd, openid, header, shared, seen, valid, crossed, home>>

\* A request is not answered, or not with a result: the call throws.
RequestFails(t) == /\ pc[t] \in {"send", "resend"} /\ faults < MaxFaults
                   /\ faults' = faults + 1
                   /\ Goto(t, "idle")
                   /\ UNCHANGED <<session, shared, back, seen, valid, crossed, home>>

\* The eSight ends a login early: it was restarted, or somebody logged it out.
Expire == /\ faults < MaxFaults /\ faults' = faults + 1
          /\ \E p \in Process : \E id \in valid[p] : valid' = [valid EXCEPT ![p] = @ \ {id}]
          /\ UNCHANGED <<session, shared, local, crossed>>

-----------------------------------------------------------------------------
Step(t) == \/ Call(t)
           \/ BeginRefresh(t) \/ SkipRefresh(t) \/ NewKey(t) \/ Reencrypt(t) \/ SaveToDB(t)
           \/ FindByIP(t) \/ Compare(t) \/ Open(t) \/ InitHCHead(t) \/ Send(t)
           \/ InitHC(t) \/ GetLoginParam(t) \/ LoggedIn(t) \/ LoginFails(t) \/ RequestFails(t)

Next == \/ \E t \in Thread : Step(t)
        \/ Expire

Spec == Init /\ [][Next]_vars

\* A thread's code runs on, and what it waits for answers or times out.
FairSpec == Spec /\ \A t \in Thread : WF_vars(Step(t))

-----------------------------------------------------------------------------
TypeOK == /\ mainKey \in Key /\ stored \in Key /\ mutex \in Process \cup {NoProcess}
          /\ pwd \in [Process -> Key]
          /\ online \in [Process -> BOOLEAN]
          /\ openid \in [Process -> Id \cup {NoId}]
          /\ header \in [Process -> Id \cup {NoId}]
          /\ pc \in [Thread -> Label]
          /\ back \in [Thread -> {"call", "head", "resend", "idle"}]
          /\ seen \in [Thread -> Key] /\ home \in [Thread -> Process]
          /\ valid \in [Process -> SUBSET Id]
          /\ faults \in 0..MaxFaults /\ crossed \in BOOLEAN
          /\ \A t \in Thread : pc[t] \in Refreshing => mutex = home[t]

\* Whatever the processes do at once, the password in the database can be
\* decrypted whenever no renewal is under way - unless a thread of the renewing
\* process has started the session again, with the row it had read before,
\* between the last two lines of RefreshPwds (crossed).
PasswordReadable == mutex = NoProcess /\ ~crossed => stored = mainKey

\* Another thread of t's process replaces the client after t has set its header
\* for a request and before t sends it: the request may go out without an openid.
ClientLost(t) ==
    /\ pc[t] \in {"send", "resend"} \/ (At(t, "answer") /\ back[t] = "resend")
    /\ \E u \in Thread \ {t} : home[u] = home[t] /\ InitHC(u)

\* After the eSight has ended logins early, refused some, or the key has been
\* renewed by another process, every thread's calls succeed again - unless the
\* other threads of its process keep replacing the client that it sends with:
\* then each one's new login can cost another one its request for ever.
CallsRecover ==
    [](~crossed) =>
        \A t \in Thread : []<>At(t, "ok") \/ []<><<ClientLost(t)>>_vars

\* HCGet and the others "reopen the connection, get the eSight openid" when
\* they are asked to log in, and retry: a retry whose session is logged in is
\* not asked to log in once more.
RetryIsLoggedIn ==
    [][\A t \in Thread : At(t, "resend") /\ openid[home[t]] \in valid[home[t]]
            => pc'[t] # "login"]_vars
=============================================================================
