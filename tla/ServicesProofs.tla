---------------------------- MODULE ServicesProofs ----------------------------
(* Proofs about the four services around the scheduler, each for itself. *)
EXTENDS Plugins, EsSink, AuthCache, VaultSeal, SequenceTheorems, TLAPS

AuthSpec == AuthInit /\ [][AuthNext]_authVars
SealSpec == SealInit /\ [][SealNext]_sealVars
SinkSpec == SinkInit /\ [][SinkNext]_sinkVars
PluginsSpec == PluginsInit /\ [][PluginsNext]_pluginVars

(***************************************************************************)
(* The auth service.                                                       *)
(***************************************************************************)

\* A call of Check that is about to cache the user holds the row as it is, unless it was
\* overtaken.
CheckIsFresh ==
    \A c \in Checker :
        check[c].pc = "cache" /\ c \notin overtaken => Shown(rows, check[c].row)

AuthInv == AuthTypeOK /\ CheckIsFresh /\ CacheIsCurrent

LEMMA MergeTypes ==
    ASSUME NEW row \in Row, row # Absent, NEW read \in Row, NEW new \in User
    PROVE  /\ Merge(row, read, new) \in User
           /\ new = read => Merge(row, read, new) = row
<1>1. row \in User
  BY DEF Row
<1>2. new = read => Merge(row, read, new) = row
  BY <1>1, Zenon DEF Merge, User
<1>3. Merge(row, read, new) \in User
  BY <1>1 DEF Merge, User
<1> QED  BY <1>2, <1>3

\* Whatever is written to the rows, a call of Check either holds the first or is overtaken.
LEMMA WriteKeepsFresh ==
    ASSUME AuthInv, NEW n \in Id, NEW row \in Row, WriteRow(n, row), UNCHANGED check
    PROVE  /\ rows' \in [Id -> Row] /\ overtaken' \in SUBSET Checker
           /\ CheckIsFresh'
BY DEF AuthInv, AuthTypeOK, WriteRow, CheckIsFresh

\* A step that writes no row and caches nothing.
LEMMA TableStays ==
    ASSUME AuthInv, UNCHANGED <<rows, cached, check, overtaken, outdated>>,
           \A e \in Editor : edit[e].pc = "remove" => edit'[e].pc = "remove"
    PROVE  CheckIsFresh' /\ CacheIsCurrent'
BY DEF AuthInv, CheckIsFresh, CacheIsCurrent

LEMMA EditTypes == NoEdit \in EditRequest /\ Removing \in EditRequest
BY AuthAssumption DEF NoEdit, Removing, EditRequest, Id, Row

LEMMA UpdateUserStep ==
    ASSUME AuthInv, NEW e \in Editor, UpdateUser(e)
    PROVE  AuthInv'
<1> USE DEF AuthInv, AuthTypeOK
<1> DEFINE n == edit[e].id
<1>1. PICK new \in User :
          /\ WriteUpdate(e, new)
          /\ edit' = [edit EXCEPT ![e] = IF new # edit[e].row THEN Removing ELSE NoEdit]
  BY DEF UpdateUser
<1>2. n \in Id /\ edit[e].row \in Row /\ rows[n] \in Row /\ rows[n] # Absent
  BY DEF UpdateUser, EditRequest
<1>3. PICK row \in User :
          WriteRow(n, row) /\ (new = edit[e].row => row = rows[n])
  BY <1>1, <1>2, MergeTypes DEF WriteUpdate
<1>4. UNCHANGED <<made, deleted, cached, check, outdated>>
  BY DEF UpdateUser
<1>5. rows' \in [Id -> Row] /\ overtaken' \in SUBSET Checker /\ CheckIsFresh'
  BY <1>2, <1>3, <1>4, WriteKeepsFresh DEF Row
<1>6. AuthTypeOK'
  BY <1>1, <1>2, <1>4, <1>5, EditTypes
<1>7. CacheIsCurrent'
  <2>1. CASE new # edit[e].row
    <3>1. edit'[e].pc = "remove"
      BY <1>1, <2>1 DEF Removing, NoEdit
    <3> QED  BY <3>1 DEF CacheIsCurrent
  <2>2. CASE new = edit[e].row
    <3>1. rows' = rows
      BY <1>2, <1>3, <2>2 DEF WriteRow
    <3>2. \A f \in Editor : edit[f].pc = "remove" => edit'[f].pc = "remove"
      BY <1>1 DEF UpdateUser
    <3> QED  BY <1>4, <3>1, <3>2 DEF CacheIsCurrent
  <2> QED  BY <2>1, <2>2
<1> QED  BY <1>5, <1>6, <1>7

LEMMA CreateUserStep ==
    ASSUME AuthInv, NEW e \in Editor, CreateUser(e)
    PROVE  AuthInv'
<1> USE DEF AuthInv, AuthTypeOK
<1>1. /\ edit[e].pc = "create" /\ edit' = [edit EXCEPT ![e] = NoEdit]
      /\ outdated' = (outdated \/ (Shown(rows, cached) /\ ~Shown(rows', cached)))
      /\ UNCHANGED <<deleted, cached, check>>
  BY DEF CreateUser
<1>2. PICK k \in Connector, r \in Role :
          LET row == [conn |-> k, role |-> r, active |-> TRUE] IN
          \/ k \in deleted /\ UNCHANGED <<rows, made, overtaken>>
          \/ \E n \in Id : rows[n].conn = k /\ WriteRow(n, row) /\ UNCHANGED made
          \/ ~Taken(k) /\ made < MaxUsers /\ WriteRow(made + 1, row) /\ made' = made + 1
  BY DEF CreateUser
<1>3. [conn |-> k, role |-> r, active |-> TRUE] \in Row
  BY DEF Row, User
<1>4. /\ rows' \in [Id -> Row] /\ overtaken' \in SUBSET Checker /\ made' \in 0..MaxUsers
      /\ CheckIsFresh'
  <2>1. CASE k \in deleted /\ UNCHANGED <<rows, made, overtaken>>
    BY <1>1, <2>1 DEF CheckIsFresh
  <2>2. CASE \E n \in Id : /\ WriteRow(n, [conn |-> k, role |-> r, active |-> TRUE])
                           /\ UNCHANGED made
    BY <1>1, <1>3, <2>2, WriteKeepsFresh
  <2>3. CASE /\ made < MaxUsers /\ made' = made + 1
             /\ WriteRow(made + 1, [conn |-> k, role |-> r, active |-> TRUE])
    <3>1. made + 1 \in Id /\ made' \in 0..MaxUsers
      BY <2>3, AuthAssumption DEF Id
    <3> QED  BY <1>1, <1>3, <2>3, <3>1, WriteKeepsFresh
  <2> QED  BY <1>2, <2>1, <2>2, <2>3
<1>5. AuthTypeOK'
  BY <1>1, <1>4, EditTypes
<1>6. CacheIsCurrent'
  BY <1>1 DEF CacheIsCurrent
<1> QED  BY <1>4, <1>5, <1>6

LEMMA EditKeepsAuth ==
    ASSUME AuthInv, NEW e \in Editor, EditStep(e)
    PROVE  AuthInv'
<1> USE DEF AuthInv, AuthTypeOK, EditRequest, NoEdit, Removing, table
<1>0. NoEdit \in EditRequest
  BY EditTypes
<1>1. CASE CheckNoUser(e)
  <2>1. AuthTypeOK'
    BY <1>1, <1>0 DEF CheckNoUser
  <2> QED  BY <1>1, <2>1, TableStays DEF CheckNoUser
<1>2. CASE CreateUser(e)
  BY <1>2, CreateUserStep
<1>3. ASSUME NEW step \in {"update", "delete", "reset"}, NEW n \in Id, GetUser(e, step, n)
      PROVE  AuthInv'
  <2>1. AuthTypeOK'
    BY <1>3 DEF GetUser
  <2> QED  BY <1>3, <2>1, TableStays DEF GetUser
<1>4. CASE UpdateUser(e)
  BY <1>4, UpdateUserStep
<1>5. CASE DeleteUser(e)
  <2> DEFINE n == edit[e].id
  <2>1. /\ n \in Id /\ rows[n] # Absent /\ WriteRow(n, Absent) /\ Absent \in Row
        /\ deleted' = deleted \cup {rows[n].conn}
        /\ edit' = [edit EXCEPT ![e] = Removing]
        /\ UNCHANGED <<made, cached, check, outdated>>
    BY <1>5 DEF DeleteUser, Row
  <2>2. rows' \in [Id -> Row] /\ overtaken' \in SUBSET Checker /\ CheckIsFresh'
    BY <2>1, WriteKeepsFresh
  <2>3. rows[n].conn \in Connector
    BY <2>1 DEF Row, User
  <2>4. AuthTypeOK' /\ edit'[e].pc = "remove"
    BY <1>0, <2>1, <2>2, <2>3
  <2> QED  BY <2>2, <2>4 DEF CacheIsCurrent
<1>6. CASE ResetUserPassword(e)
  <2>1. AuthTypeOK' /\ \A f \in Editor : edit[f].pc = "remove" => edit'[f].pc = "remove"
    BY <1>0, <1>6 DEF ResetUserPassword
  <2> QED  BY <1>6, <2>1, TableStays DEF ResetUserPassword
<1>7. CASE GiveUpEdit(e)
  <2>1. AuthTypeOK' /\ \A f \in Editor : edit[f].pc = "remove" => edit'[f].pc = "remove"
    BY <1>0, <1>7 DEF GiveUpEdit
  <2> QED  BY <1>7, <2>1, TableStays DEF GiveUpEdit
<1>8. CASE RemoveUserFromCache(e)
  <2>1. AuthTypeOK'
    BY <1>0, <1>8 DEF RemoveUserFromCache, Row
  <2> QED  BY <1>8, <2>1 DEF RemoveUserFromCache, CheckIsFresh, CacheIsCurrent
<1> QED  BY <1>1, <1>2, <1>3, <1>4, <1>5, <1>6, <1>7, <1>8 DEF EditStep

LEMMA AuthNextStep ==
    ASSUME AuthInv, [AuthNext]_authVars
    PROVE  AuthInv'
<1> USE DEF AuthInv, AuthTypeOK, AtRest, table
<1>1. ASSUME NEW c \in Checker, ReadUser(c)
      PROVE  AuthInv'
  <2>1. PICK n \in Id :
            /\ IsFirst(rows, n)
            /\ check' = [check EXCEPT ![c] = [pc |-> "cache", row |-> rows[n]]]
    BY <1>1 DEF ReadUser
  <2>2. Shown(rows, rows[n])
    BY <2>1 DEF Shown
  <2>3. AuthTypeOK'
    BY <1>1, <2>1 DEF ReadUser
  <2>4. CheckIsFresh'
    BY <1>1, <2>1, <2>2 DEF ReadUser, CheckIsFresh
  <2>5. CacheIsCurrent'
    BY <1>1 DEF ReadUser, CacheIsCurrent
  <2> QED  BY <2>3, <2>4, <2>5
<1>2. ASSUME NEW c \in Checker, AddUserToCache(c)
      PROVE  AuthInv'
  <2>1. AuthTypeOK'
    BY <1>2 DEF AddUserToCache, Row
  <2>2. CheckIsFresh'
    BY <1>2 DEF AddUserToCache, CheckIsFresh
  <2>3. ~Shown(rows', cached') => outdated'
    BY <1>2 DEF AddUserToCache, CheckIsFresh
  <2> QED  BY <2>1, <2>2, <2>3 DEF CacheIsCurrent
<1>3. ASSUME NEW e \in Editor, EditStep(e)
      PROVE  AuthInv'
  BY <1>3, EditKeepsAuth
<1>4. CASE ExpireEntry
  BY <1>4 DEF ExpireEntry, CheckIsFresh, CacheIsCurrent, Row
<1>5. CASE RestartAuth
  BY <1>5, EditTypes DEF RestartAuth, CheckIsFresh, CacheIsCurrent, Row, EditRequest, NoEdit
<1>6. CASE UNCHANGED authVars
  BY <1>6 DEF authVars, CheckIsFresh, CacheIsCurrent
<1> QED  BY <1>1, <1>2, <1>3, <1>4, <1>5, <1>6 DEF AuthNext

LEMMA AuthInvariant == AuthSpec => []AuthInv
<1>1. ASSUME AuthInit PROVE AuthInv
  <2>1. AuthTypeOK
    <3>1. 0 \in 0..MaxUsers
      BY AuthAssumption
    <3> QED  BY <1>1, <3>1, EditTypes DEF AuthInit, AuthTypeOK, AtRest, Row
  <2>2. CheckIsFresh
    BY <1>1 DEF AuthInit, CheckIsFresh, AtRest
  <2>3. CacheIsCurrent
    BY <1>1 DEF AuthInit, CacheIsCurrent
  <2> QED  BY <2>1, <2>2, <2>3 DEF AuthInv
<1> QED  BY <1>1, AuthNextStep, PTL DEF AuthSpec

\* The auth service keeps its types.
THEOREM AuthTypeCorrect == AuthSpec => []AuthTypeOK
BY AuthInvariant, PTL DEF AuthInv

\* For any number of checks and edits at a time, whoever the cache admits is admitted as the
\* row says, with the exceptions the property names.
THEOREM CacheCurrent == AuthSpec => []CacheIsCurrent
BY AuthInvariant, PTL DEF AuthInv

\* Nobody has an external id that was deleted, and no two rows have the same.
IdsAreApart ==
    /\ \A n \in Id : rows[n] # Absent => n <= made /\ rows[n].conn \notin deleted
    /\ \A m, n \in Id : rows[m] # Absent /\ rows[m].conn = rows[n].conn => m = n

\* An external id that was deleted is never again that of a user: the upsert of a later creation
\* (DoCreateUser) leaves the mark, and neither it nor an update gives the id to another row.  The
\* email may have a user again, under another connector.
THEOREM DeletedForGood == AuthSpec => []IdsAreApart /\ [][deleted \subseteq deleted']_authVars
<1>1. AuthInit => IdsAreApart
  BY DEF AuthInit, IdsAreApart
<1>2. AuthTypeOK /\ IdsAreApart /\ [AuthNext]_authVars =>
          IdsAreApart' /\ [deleted \subseteq deleted']_authVars
  <2> SUFFICES ASSUME AuthTypeOK, IdsAreApart, [AuthNext]_authVars
               PROVE  IdsAreApart' /\ deleted \subseteq deleted'
    OBVIOUS
  <2> USE DEF AuthTypeOK, IdsAreApart, table
  <2>0. Absent.conn = "none" /\ "none" \notin Connector /\ MaxUsers \in Nat
        /\ \A n \in Id : n \in 1..MaxUsers /\ n \in Nat
    BY AuthAssumption DEF Absent, Id
  <2>1. ASSUME NEW e \in Editor, CreateUser(e) PROVE IdsAreApart' /\ deleted \subseteq deleted'
    <3>1. PICK k \in Connector, r \in Role :
              LET row == [conn |-> k, role |-> r, active |-> TRUE] IN
              \/ k \in deleted /\ UNCHANGED <<rows, made, overtaken>>
              \/ \E n \in Id : rows[n].conn = k /\ WriteRow(n, row) /\ UNCHANGED made
              \/ ~Taken(k) /\ made < MaxUsers /\ WriteRow(made + 1, row) /\ made' = made + 1
      BY <2>1 DEF CreateUser
    <3> DEFINE row == [conn |-> k, role |-> r, active |-> TRUE]
    <3>2. deleted' = deleted /\ row.conn = k /\ row # Absent
      BY <2>0, <2>1 DEF CreateUser
    <3>3. CASE UNCHANGED <<rows, made>>
      BY <3>2, <3>3
    <3>4. ASSUME NEW n \in Id, rows[n].conn = k, WriteRow(n, row), UNCHANGED made
          PROVE  IdsAreApart'
      <4>1. rows[n] # Absent
        BY <2>0, <3>4
      <4>2. rows' = [rows EXCEPT ![n] = row]
        BY <3>4 DEF WriteRow
      <4> QED  BY <3>2, <3>4, <4>1, <4>2
    <3>5. CASE ~Taken(k) /\ made < MaxUsers /\ WriteRow(made + 1, row) /\ made' = made + 1
      <4>1. made + 1 \in Id
        BY <2>0, <3>5 DEF Id
      <4>2. rows' = [rows EXCEPT ![made + 1] = row]
        BY <3>5 DEF WriteRow
      <4>3. k \notin deleted /\ \A n \in Id : rows[n].conn # k
        BY <3>5 DEF Taken
      <4> QED  BY <2>0, <3>2, <3>5, <4>1, <4>2, <4>3
    <3> QED  BY <3>1, <3>2, <3>3, <3>4, <3>5
  <2>2. ASSUME NEW e \in Editor, UpdateUser(e) PROVE IdsAreApart' /\ deleted \subseteq deleted'
    <3> DEFINE n == edit[e].id
    <3>1. PICK new \in User : WriteUpdate(e, new)
      BY <2>2 DEF UpdateUser
    <3>2. n \in Id /\ rows[n] # Absent /\ edit[e].row \in Row /\ UNCHANGED <<made, deleted>>
      BY <2>2 DEF UpdateUser, EditRequest
    <3>3. PICK row \in User : /\ rows' = [rows EXCEPT ![n] = row]
                              /\ row.conn = rows[n].conn \/ ~Taken(row.conn)
      BY <3>1, <3>2, MergeTypes DEF WriteUpdate, WriteRow
    <3>4. row.conn \notin deleted /\ \A m \in Id : rows[m].conn = row.conn => m = n
      BY <3>2, <3>3 DEF Taken
    <3> QED  BY <2>0, <3>2, <3>3, <3>4 DEF User
  <2>3. ASSUME NEW e \in Editor, DeleteUser(e) PROVE IdsAreApart' /\ deleted \subseteq deleted'
    <3> DEFINE n == edit[e].id
    <3>1. /\ n \in Id /\ rows[n] # Absent /\ rows' = [rows EXCEPT ![n] = Absent]
          /\ deleted' = deleted \cup {rows[n].conn} /\ made' = made
      BY <2>3 DEF DeleteUser, WriteRow, EditRequest
    <3>2. \A m \in Id : rows[m] # Absent => rows[m].conn \in Connector
      BY DEF Row, User
    <3> QED  BY <2>0, <3>1, <3>2
  <2>4. CASE UNCHANGED table
    BY <2>4
  <2>5. ASSUME NEW e \in Editor, EditStep(e) PROVE IdsAreApart' /\ deleted \subseteq deleted'
    BY <2>1, <2>2, <2>3, <2>4, <2>5
       DEF EditStep, CheckNoUser, GetUser, ResetUserPassword, GiveUpEdit, RemoveUserFromCache
  <2> QED  BY <2>4, <2>5 DEF AuthNext, authVars, ReadUser, AddUserToCache, ExpireEntry, RestartAuth
<1> QED  BY <1>1, <1>2, AuthInvariant, PTL DEF AuthSpec, AuthInv

(***************************************************************************)
(* The seal handler.                                                       *)
(***************************************************************************)

\* Whoever waits for Vault, or has it, has stored the keys.
WaitsWithKeys == core \in {"wait", "ready"} => secret

\* Vault was initialised and its keys are not in the secret, nor with anyone to store them.
KeysLost == vault # "uninitialised" /\ ~secret /\ core # "store"

SealInv == SealTypeOK /\ WaitsWithKeys

LEMMA SealInvariant == SealSpec => []SealInv
<1>1. ASSUME SealInit PROVE SealInv
  <2>1. stops \in Nat
    BY <1>1 DEF SealInit
  <2>2. secret \in BOOLEAN /\ WaitsWithKeys
    BY <1>1, Zenon DEF SealInit, WaitsWithKeys
  <2> QED  BY <1>1, <2>1, <2>2, Zenon DEF SealInit, SealInv, SealTypeOK
<1>2. ASSUME SealInv, [SealNext]_sealVars PROVE SealInv'
  <2> USE DEF SealNext, sealVars, Exit, StartCore, TryInit,
         InitFails, StoreKeys, StoreKeysFails, VerifySecret, SecretMissing, GetKeysFails,
         FirstUnseal, FirstUnsealFails, PeriodicUnseal, StartTimesOut, VaultRestarts, StopCore
  <2>1. vault' \in {"uninitialised", "sealed", "unsealed"} /\ secret' \in BOOLEAN
    BY <1>2 DEF SealInv, SealTypeOK
  <2>2. /\ core' \in {"down", "init", "store", "wait", "ready"}
        /\ checker' \in {"none", "first", "loop"}
    BY <1>2 DEF SealInv, SealTypeOK
  <2>3. stops' \in Nat
    BY <1>2 DEF SealInv, SealTypeOK
  <2>4. WaitsWithKeys'
    BY <1>2 DEF SealInv, SealTypeOK, WaitsWithKeys
  <2> QED  BY <2>1, <2>2, <2>3, <2>4 DEF SealInv, SealTypeOK
<1> QED  BY <1>1, <1>2, PTL DEF SealSpec

\* The seal handler keeps its types.
THEOREM SealTypeCorrect == SealSpec => []SealTypeOK
BY SealInvariant, PTL DEF SealInv

\* The core service is never up when the keys are lost (initVault, unsealChecker).
THEOREM UpHasKeys == SealSpec => [](core = "ready" => ~KeysLost)
<1>1. SealInv => (core = "ready" => ~KeysLost)
  BY DEF SealInv, WaitsWithKeys, KeysLost
<1> QED  BY <1>1, SealInvariant, PTL

\* Keys that are lost are lost for ever: no step of the code brings them back (initVault).
THEOREM LostForEver == SealSpec => [][KeysLost => KeysLost']_sealVars
<1>1. [SealNext]_sealVars => [KeysLost => KeysLost']_sealVars
  BY DEF KeysLost, SealNext, sealVars, Exit, StartCore, TryInit,
         InitFails, StoreKeys, StoreKeysFails, VerifySecret, SecretMissing, GetKeysFails,
         FirstUnseal, FirstUnsealFails, PeriodicUnseal, StartTimesOut, VaultRestarts, StopCore
<1> QED  BY <1>1, PTL DEF SealSpec

(***************************************************************************)
(* The es-sink service.                                                    *)
(***************************************************************************)

\* The documents of the process that are not with the callback of the consumer.
Past == ({inHand} \cup InSeq(inputChan) \cup InSeq(retryChan) \cup InSeq(queue)
         \cup {worker[w].doc : w \in BulkWorker}) \ {NoDoc}

\* A document is acknowledged only after it has got into the channel.
AckedIsPast == handler.pc = "ack" => handler.doc \in Past \cup settled

\* The callback and the workers hold a document except when they are idle.
HandsFull ==
    /\ handler.pc # "idle" => handler.doc \in Docs
    /\ \A w \in BulkWorker : worker[w].pc # "idle" => worker[w].doc \in Docs

SinkTypes == SinkTypeOK /\ HandsFull

SinkInv == SinkTypes /\ AckedIsPast /\ AcceptedIsAccounted

LEMMA InSeqOfAppend ==
    ASSUME NEW q \in Seq(Docs), NEW d
    PROVE  InSeq(Append(q, d)) = InSeq(q) \cup {d}
<1>1. /\ Len(q) \in Nat /\ DOMAIN q = 1 .. Len(q)
      /\ DOMAIN Append(q, d) = 1 .. Len(q) + 1
      /\ \A k \in 1 .. Len(q) : Append(q, d)[k] = q[k]
      /\ Append(q, d)[Len(q) + 1] = d
  <2>1. q \in Seq(Docs \cup {d}) /\ d \in Docs \cup {d}
    OBVIOUS
  <2> QED  BY <2>1, AppendProperties, LenProperties
<1>2. \A k \in 1 .. Len(q) + 1 : k \in 1 .. Len(q) \/ k = Len(q) + 1
  BY <1>1
<1>3. \A k \in 1 .. Len(q) : k \in 1 .. Len(q) + 1
  BY <1>1
<1>4. Len(q) + 1 \in 1 .. Len(q) + 1
  BY <1>1
<1> QED  BY <1>1, <1>2, <1>3, <1>4 DEF InSeq

LEMMA InSeqOfTail ==
    ASSUME NEW q \in Seq(Docs), q # <<>>
    PROVE  /\ InSeq(q) = InSeq(Tail(q)) \cup {Head(q)}
           /\ Head(q) \in Docs /\ Tail(q) \in Seq(Docs)
<1>1. Len(q) \in Nat \ {0} /\ Len(Tail(q)) = Len(q) - 1
  BY EmptySeq, HeadTailProperties
<1>2. \A k \in 1 .. Len(q) - 1 : Tail(q)[k] = q[k + 1]
  BY <1>1
<1>3. InSeq(q) \subseteq InSeq(Tail(q)) \cup {Head(q)}
  <2> SUFFICES ASSUME NEW k \in 1 .. Len(q), k # 1 PROVE q[k] \in InSeq(Tail(q))
    BY DEF InSeq
  <2>1. k - 1 \in 1 .. Len(q) - 1 /\ (k - 1) + 1 = k
    BY <1>1
  <2>2. k - 1 \in DOMAIN Tail(q) /\ Tail(q)[k - 1] = q[k]
    BY <2>1, <1>1, <1>2
  <2> QED  BY <2>2 DEF InSeq
<1>4. InSeq(Tail(q)) \cup {Head(q)} \subseteq InSeq(q)
  BY <1>1, <1>2 DEF InSeq
<1> QED  BY <1>1, <1>3, <1>4, HeadTailProperties

LEMMA MemoryIs == InMemory = Past \cup ({handler.doc} \ {NoDoc})
BY DEF InMemory, Past

\* A document once past the callback stays in the process or is settled.
PastStays == Past \cup settled \subseteq (Past \cup settled)'

\* What a step must show when it leaves the callback, the stream and the client alone.
LEMMA InnerStep ==
    ASSUME SinkInv, SinkTypes', PastStays, UNCHANGED <<accepted, stream, handler>>
    PROVE  SinkInv'
<1>1. AckedIsPast'
  BY DEF SinkInv, AckedIsPast, PastStays
<1>2. AcceptedIsAccounted'
  BY MemoryIs DEF SinkInv, AcceptedIsAccounted, PastStays, InMemory, Past
<1> QED  BY <1>1, <1>2 DEF SinkInv

\* How the documents of the workers change with one of them.
LEMMA WorkerDocs ==
    ASSUME SinkTypeOK, NEW w \in BulkWorker, NEW x,
           worker' = [worker EXCEPT ![w] = x]
    PROVE  /\ \A v \in BulkWorker : worker[v].doc \in {worker'[u].doc : u \in BulkWorker}
                                                     \cup {worker[w].doc}
           /\ x.doc \in {worker'[u].doc : u \in BulkWorker}
<1>1. worker'[w] = x /\ \A v \in BulkWorker \ {w} : worker'[v] = worker[v]
  BY DEF SinkTypeOK
<1> QED  BY <1>1

LEMMA LoopKeepsSink ==
    ASSUME SinkInv, TakeInput \/ SkipInput \/ TakeRetry \/ Add
    PROVE  SinkInv'
<1> USE DEF SinkInv, SinkTypes, HandsFull
<1>0. NoDoc \notin Docs
  BY SinkAssumption DEF NoDoc
<1>1. CASE TakeInput
  <2>1. /\ InSeq(inputChan) = InSeq(inputChan') \cup {inHand'}
        /\ inHand' \in Docs /\ inputChan' \in Seq(Docs)
        /\ inHand = NoDoc
    BY <1>1, InSeqOfTail DEF TakeInput, SinkTypeOK
  <2>2. SinkTypes'
    BY <1>1, <2>1 DEF TakeInput, SinkTypeOK
  <2>3. PastStays
    BY <1>1, <2>1, <1>0 DEF TakeInput, PastStays, Past
  <2> QED  BY <1>1, <2>2, <2>3, InnerStep DEF TakeInput
<1>2. CASE SkipInput
  <2>1. /\ InSeq(inputChan) = InSeq(inputChan') \cup {Head(inputChan)}
        /\ Head(inputChan) \in Docs /\ inputChan' \in Seq(Docs)
    BY <1>2, InSeqOfTail DEF SkipInput, SinkTypeOK
  <2>2. SinkTypes'
    BY <1>2, <2>1 DEF SkipInput, SinkTypeOK, End
  <2>3. PastStays
    BY <1>2, <2>1 DEF SkipInput, PastStays, Past, End
  <2> QED  BY <1>2, <2>2, <2>3, InnerStep DEF SkipInput
<1>3. CASE TakeRetry
  <2>1. /\ InSeq(retryChan) = InSeq(retryChan') \cup {inHand'}
        /\ inHand' \in Docs /\ retryChan' \in Seq(Docs)
        /\ inHand = NoDoc
    BY <1>3, InSeqOfTail DEF TakeRetry, SinkTypeOK
  <2>2. SinkTypes'
    BY <1>3, <2>1 DEF TakeRetry, SinkTypeOK
  <2>3. PastStays
    BY <1>3, <2>1, <1>0 DEF TakeRetry, PastStays, Past
  <2> QED  BY <1>3, <2>2, <2>3, InnerStep DEF TakeRetry
<1>4. CASE Add
  <2>1. inHand \in Docs /\ queue' \in Seq(Docs) /\ InSeq(queue') = InSeq(queue) \cup {inHand}
    BY <1>4, InSeqOfAppend DEF Add, SinkTypeOK
  <2>2. SinkTypes'
    BY <1>4, <2>1 DEF Add, SinkTypeOK
  <2>3. PastStays
    BY <1>4, <2>1, <1>0 DEF Add, PastStays, Past
  <2> QED  BY <1>4, <2>2, <2>3, InnerStep DEF Add
<1> QED  BY <1>1, <1>2, <1>3, <1>4

LEMMA WorkerKeepsSink ==
    ASSUME SinkInv, NEW w \in BulkWorker, WorkerStep(w)
    PROVE  SinkInv'
<1> USE DEF SinkInv, SinkTypes, HandsFull
<1>0. NoDoc \notin Docs
  BY SinkAssumption DEF NoDoc
<1>1. CASE Collect(w)
  <2>1. /\ InSeq(queue) = InSeq(queue') \cup {Head(queue)}
        /\ Head(queue) \in Docs /\ queue' \in Seq(Docs)
        /\ worker[w].doc = NoDoc
    BY <1>1, InSeqOfTail DEF Collect, SinkTypeOK, Free
  <2>2. SinkTypes'
    BY <1>1, <2>1 DEF Collect, SinkTypeOK, At
  <2>3. /\ worker' = [worker EXCEPT ![w] = At("flush", Head(queue))]
        /\ At("flush", Head(queue)).doc = Head(queue)
    BY <1>1 DEF Collect, At
  <2>4. /\ {worker[v].doc : v \in BulkWorker} \ {NoDoc} \subseteq {worker'[v].doc : v \in BulkWorker}
        /\ Head(queue) \in {worker'[v].doc : v \in BulkWorker}
    <3>1. /\ \A v \in BulkWorker : worker[v].doc \in {worker'[u].doc : u \in BulkWorker}
                                                      \cup {worker[w].doc}
          /\ At("flush", Head(queue)).doc \in {worker'[u].doc : u \in BulkWorker}
      BY <2>3, WorkerDocs
    <3> QED  BY <2>1, <2>3, <3>1
  <2>5. PastStays
    BY <1>1, <2>1, <2>4 DEF Collect, PastStays, Past
  <2> QED  BY <1>1, <2>2, <2>5, InnerStep DEF Collect
<1>2. CASE Index(w) \/ Refuse(w)
  <2>1. /\ worker' = [worker EXCEPT ![w] = Free]
        /\ settled' = settled \cup {worker[w].doc}
        /\ UNCHANGED <<accepted, stream, delivered, handler, inputChan, retryChan, inHand, queue>>
        /\ worker[w].doc \in Docs
    BY <1>2 DEF Index, Refuse, End
  <2>2. PastStays
    BY <2>1, WorkerDocs DEF PastStays, Past
  <2>3. SinkTypes'
    BY <2>1 DEF SinkTypeOK, Free
  <2> QED  BY <2>1, <2>2, <2>3, InnerStep
<1>3. CASE TooManyRequests(w)
  <2>1. SinkTypes'
    BY <1>3 DEF TooManyRequests, SinkTypeOK
  <2>2. \A v \in BulkWorker : worker'[v].doc = worker[v].doc
    BY <1>3 DEF TooManyRequests, SinkTypeOK
  <2>3. PastStays
    BY <1>3, <2>2 DEF TooManyRequests, PastStays, Past
  <2> QED  BY <1>3, <2>1, <2>3, InnerStep DEF TooManyRequests
<1>4. CASE Retry(w)
  <2>1. /\ worker[w].doc \in Docs
        /\ retryChan' \in Seq(Docs) /\ InSeq(retryChan') = InSeq(retryChan) \cup {worker[w].doc}
        /\ worker' = [worker EXCEPT ![w] = Free]
    BY <1>4, InSeqOfAppend DEF Retry, SinkTypeOK
  <2>2. SinkTypes'
    BY <1>4, <2>1 DEF Retry, SinkTypeOK, Free
  <2>3. {worker[v].doc : v \in BulkWorker} \subseteq
            {worker'[v].doc : v \in BulkWorker} \cup {worker[w].doc}
    BY <2>1, WorkerDocs
  <2>4. PastStays
    BY <1>4, <2>1, <2>3 DEF Retry, PastStays, Past
  <2> QED  BY <1>4, <2>2, <2>4, InnerStep DEF Retry
<1> QED  BY <1>1, <1>2, <1>3, <1>4 DEF WorkerStep

LEMMA OuterKeepsSink ==
    ASSUME SinkInv, NEW d \in Docs,
           Ingest(d) \/ IngestUnstored(d) \/ Expire(d) \/ Deliver(d) \/ QueueDoc \/ Ack
    PROVE  SinkInv'
<1> USE DEF SinkInv, SinkTypes, HandsFull
<1>0. NoDoc \notin Docs
  BY SinkAssumption DEF NoDoc
<1>1. CASE Ingest(d) \/ IngestUnstored(d) \/ Expire(d)
  <2>1. SinkTypes'
    BY <1>1 DEF Ingest, IngestUnstored, Expire, End, SinkTypeOK, sinkMemory
  <2>2. Past' = Past /\ InMemory' = InMemory /\ UNCHANGED handler
    BY <1>1 DEF Ingest, IngestUnstored, Expire, sinkMemory, Past, InMemory
  <2>3. AckedIsPast'
    BY <1>1, <2>2 DEF AckedIsPast, Ingest, IngestUnstored, Expire, End
  <2>4. AcceptedIsAccounted'
    BY <1>1, <2>2 DEF AcceptedIsAccounted, Ingest, IngestUnstored, Expire, End
  <2> QED  BY <2>1, <2>3, <2>4
<1>2. CASE Deliver(d)
  <2>1. SinkTypes' /\ AckedIsPast'
    BY <1>2 DEF Deliver, At, SinkTypeOK, AckedIsPast
  <2>2. InMemory \subseteq InMemory'
    BY <1>2 DEF Deliver, Free, InMemory
  <2> QED  BY <1>2, <2>1, <2>2 DEF Deliver, AcceptedIsAccounted
<1>3. CASE QueueDoc
  <2>1. /\ handler.doc \in Docs /\ handler' = At("ack", handler.doc)
        /\ inputChan' \in Seq(Docs) /\ InSeq(inputChan') = InSeq(inputChan) \cup {handler.doc}
    BY <1>3, InSeqOfAppend DEF QueueDoc, SinkTypeOK
  <2>2. SinkTypes'
    BY <1>3, <2>1 DEF QueueDoc, At, SinkTypeOK
  <2>3. AckedIsPast'
    BY <1>3, <2>1, <1>0 DEF QueueDoc, At, AckedIsPast, Past
  <2>4. InMemory \subseteq InMemory'
    BY <1>3, <2>1 DEF QueueDoc, At, InMemory
  <2> QED  BY <1>3, <2>2, <2>3, <2>4 DEF QueueDoc, AcceptedIsAccounted
<1>4. CASE Ack
  <2>1. SinkTypes' /\ AckedIsPast'
    BY <1>4 DEF Ack, Free, SinkTypeOK, AckedIsPast
  <2>2. handler.doc \in Past \cup settled
    BY <1>4 DEF Ack, AckedIsPast
  <2>3. Past' = Past /\ settled' = settled /\ accepted' = accepted
    BY <1>4 DEF Ack, Past
  <2>4. Past' \subseteq InMemory'
    BY DEF Past, InMemory
  <2>5. stream \subseteq stream' \cup {handler.doc}
    BY <1>4 DEF Ack
  <2> QED  BY <2>1, <2>2, <2>3, <2>4, <2>5, MemoryIs DEF AcceptedIsAccounted
<1> QED  BY <1>1, <1>2, <1>3, <1>4

LEMMA SinkInvariant == SinkSpec => []SinkInv
<1>1. ASSUME SinkInit PROVE SinkInv
  BY <1>1 DEF SinkInit, SinkInv, SinkTypes, SinkTypeOK, HandsFull, Free, NoDoc, AckedIsPast,
     AcceptedIsAccounted
<1>2. ASSUME SinkInv, [SinkNext]_sinkVars PROVE SinkInv'
  <2>1. CASE StopSink
    <3>1. SinkTypes'
      BY <1>2, <2>1, SinkAssumption
         DEF SinkInv, SinkTypes, SinkTypeOK, HandsFull, StopSink, Free, NoDoc, InMemory, InSeq
    <3>2. AckedIsPast' /\ AcceptedIsAccounted'
      BY <1>2, <2>1 DEF SinkInv, StopSink, Free, AckedIsPast, AcceptedIsAccounted
    <3> QED  BY <3>1, <3>2 DEF SinkInv
  <2>2. CASE UNCHANGED sinkVars
    BY <1>2, <2>2
       DEF sinkVars, sinkMemory, SinkInv, SinkTypes, SinkTypeOK, HandsFull, AckedIsPast, Past,
           AcceptedIsAccounted, InMemory
  <2>3. ASSUME QueueDoc \/ Ack PROVE SinkInv'
    <3>1. PICK d \in Docs : TRUE
      BY <1>2, <2>3 DEF QueueDoc, Ack, SinkInv, SinkTypes, HandsFull
    <3> QED  BY <1>2, <2>3, <3>1, OuterKeepsSink
  <2> QED  BY <1>2, <2>1, <2>2, <2>3, OuterKeepsSink, LoopKeepsSink, WorkerKeepsSink DEF SinkNext
<1> QED  BY <1>1, <1>2, PTL DEF SinkSpec

\* The sink keeps its types.
THEOREM SinkTypeCorrect == SinkSpec => []SinkTypeOK
BY SinkInvariant, PTL DEF SinkInv, SinkTypes

\* For any documents, workers and capacities, an accepted document is never just gone.
THEOREM NothingJustGone == SinkSpec => []AcceptedIsAccounted
BY SinkInvariant, PTL DEF SinkInv

\* Once the workers, the channel for retries, the loop and the indexer's queue wait for each
\* other (handleFailure, called by the indexer's own workers), they do so until the process
\* ends: nothing that they hold moves, and only the channel of new documents still fills up.
LockUpStays ==
    [][Stuck => \/ StopSink
                \/ /\ Stuck' /\ UNCHANGED <<retryChan, inHand, queue, worker>>
                   /\ Len(inputChan') >= Len(inputChan)]_sinkVars

\* esutil's workers call handleFailure, which waits for a loop that waits for those workers: no
\* step of the service is left that would free one of them.
THEOREM LockedUpStays == SinkSpec => LockUpStays
<1>1. ASSUME SinkInv, [SinkNext]_sinkVars, Stuck
      PROVE  \/ StopSink
             \/ /\ Stuck' /\ UNCHANGED <<retryChan, inHand, queue, worker>>
                /\ Len(inputChan') >= Len(inputChan)
  <2>1. inputChan \in Seq(Docs) /\ Len(inputChan) \in Nat
    BY <1>1 DEF SinkInv, SinkTypes, SinkTypeOK
  <2>2. CASE QueueDoc
    <3>1. handler.doc \in Docs
      BY <1>1, <2>2 DEF QueueDoc, SinkInv, SinkTypes, HandsFull
    <3>2. Len(inputChan') = Len(inputChan) + 1
      BY <2>1, <2>2, <3>1 DEF QueueDoc
    <3> QED  BY <1>1, <2>1, <2>2, <3>2 DEF QueueDoc, Stuck
  <2>3. ASSUME NEW w \in BulkWorker PROVE ~WorkerStep(w)
    BY <1>1, SinkAssumption
       DEF Stuck, WorkerStep, Collect, Index, Refuse, TooManyRequests, Retry, Free
  <2>4. ~TakeInput /\ ~SkipInput /\ ~TakeRetry /\ ~Add
    BY <1>1, SinkAssumption DEF Stuck, TakeInput, SkipInput, TakeRetry, Add
  <2>5. CASE \/ \E d \in Docs : Ingest(d) \/ IngestUnstored(d) \/ Expire(d) \/ Deliver(d)
             \/ Ack \/ UNCHANGED sinkVars
    <3>1. UNCHANGED <<retryChan, inHand, queue, worker, inputChan>>
      BY <2>5 DEF Ingest, IngestUnstored, Expire, Deliver, Ack, sinkVars, sinkMemory
    <3> QED  BY <1>1, <2>1, <3>1 DEF Stuck
  <2> QED  BY <1>1, <2>2, <2>3, <2>4, <2>5 DEF SinkNext
<1>2. SinkInv /\ [SinkNext]_sinkVars =>
          [Stuck => \/ StopSink
                    \/ /\ Stuck' /\ UNCHANGED <<retryChan, inHand, queue, worker>>
                       /\ Len(inputChan') >= Len(inputChan)]_sinkVars
  BY <1>1
<1> QED  BY <1>2, SinkInvariant, PTL DEF SinkSpec, LockUpStays

(***************************************************************************)
(* Plugins.                                                                *)
(***************************************************************************)

\* While no two loads overlapped there is one at a time, and what it has read and what lies
\* in the folder is of its own plugin.
OneLoad ==
    ~mixed =>
        /\ \A i, j \in Installer : load[i] # Idle /\ load[j] # Idle => i = j
        /\ \A i \in Installer :
              /\ load[i].pc \in {"read", "manifest"} => folder = load[i].of
              /\ load[i].pc \in {"manifest", "store", "load", "services"} => load[i].got = load[i].of
              /\ load[i].pc \in {"store", "load", "services"} => load[i].as = load[i].of

\* An uninstalled plugin's row says so, and what is added to it, or to a plugin that is being
\* unloaded, has crossed with the uninstall.
CrossedIsKnown ==
    /\ \A p \in uninstalled : install[p] = "not_installed"
    /\ \A p \in uninstalled \cap adding : p \in crossed
    /\ admin.pc \in {"unload", "uninstalled"} =>
          (admin.of \in adding \cup integrations => admin.of \in crossed)

\* What demo data brought, and who had none of it when an uninstall last looked.
DemosKnown ==
    /\ demos \in SUBSET Plugin /\ demoing \in SUBSET Plugin /\ sampled \in SUBSET Plugin
    /\ demos \subseteq sampled

PluginsInv ==
    PluginsTypeOK /\ OneLoad /\ RunsOwnCode /\ CrossedIsKnown /\ DemosKnown /\ UninstalledHasNone

\* Demo data is written whatever the state of the plugin; an uninstall goes on only when none of
\* it is there.
LEMMA DemosStayKnown ==
    ASSUME PluginsInv, PluginsNext
    PROVE  DemosKnown'
<1> USE DEF PluginsInv, DemosKnown
<1>1. CASE DisableType
  <2>1. UNCHANGED demoVars /\ admin.of \notin demos
    BY <1>1 DEF DisableType
  <2> QED  BY <2>1 DEF PluginsNext, ObservePlugins, demoVars
<1>2. CASE ~LooksAgain
  <2>1. demos' \in SUBSET Plugin /\ demoing' \in SUBSET Plugin
    BY DEF PluginsNext, PluginsStep, demoVars, InstallStepOf, AdminStepOf, DemoStepOf,
           CheckInstalling, BeginInstall, Download, ReadBinary, ReadManifest, StoreBinary,
           StartPlugin, FinishLoad, FailLoad, FailStart, EndLoad, GiveUpLoad, DisableType,
           UnLoadPlugin, WriteUninstalled, WriteStatus, AbortRequest, BeginUninstall, Ask, Reboot,
           CheckPlugin, CreateIntegration, DeleteIntegration, RowAges, LoadPluginDemoData,
           CreateDemoIntegration, EndDemoLoad, DeleteDemoIntegration, PurgeSampleData,
           UpdatePluginInstallTimedOut, CrashService, BootService
  <2>2. sampled' = (sampled \cup (demos' \ demos)) \cap demos'
    BY <1>2 DEF PluginsNext, ObservePlugins
  <2> QED  BY <2>1, <2>2
<1>3. CASE LooksAgain /\ ~DisableType
  <2>1. admin.pc = "uninstall" /\ admin'.pc = "unload"
    BY <1>3 DEF LooksAgain
  <2>2. admin' # admin /\ admin # Idle /\ admin' # Idle
    BY <2>1 DEF Idle
  <2>3. ASSUME NEW i \in Installer, InstallStepOf(i) \/ \E p \in Plugin : CheckInstalling(i, p)
        PROVE  FALSE
    BY <2>2, <2>3
       DEF InstallStepOf, CheckInstalling, BeginInstall, Download, ReadBinary, ReadManifest,
           StoreBinary, StartPlugin, FinishLoad, FailLoad, FailStart, EndLoad, GiveUpLoad
  <2>4. ASSUME NEW p \in Plugin, AdminStepOf(p) \/ DemoStepOf(p) PROVE FALSE
    BY <2>2, <2>4
       DEF AdminStepOf, BeginUninstall, Ask, Reboot, DemoStepOf, LoadPluginDemoData,
           CreateDemoIntegration, EndDemoLoad, DeleteDemoIntegration, KeepsAll
  <2>5. ASSUME NEW p \in Plugin,
               CheckPlugin(p) \/ CreateIntegration(p) \/ DeleteIntegration(p) \/ RowAges(p)
        PROVE  FALSE
    BY <2>2, <2>5 DEF CheckPlugin, CreateIntegration, DeleteIntegration, RowAges
  <2>6. ~UnLoadPlugin /\ ~WriteUninstalled /\ ~WriteStatus /\ ~AbortRequest
    BY <2>1, <2>2 DEF UnLoadPlugin, WriteUninstalled, WriteStatus, AbortRequest
  <2>7. ~PurgeSampleData /\ ~UpdatePluginInstallTimedOut /\ ~CrashService /\ ~BootService
    BY <2>2 DEF PurgeSampleData, KeepsAll, UpdatePluginInstallTimedOut, CrashService, BootService
  <2> QED  BY <1>3, <2>3, <2>4, <2>5, <2>6, <2>7 DEF PluginsNext, PluginsStep
<1> QED  BY <1>1, <1>2, <1>3

\* What a step must show that touches neither integrations nor the unloading of a plugin.
LEMMA LoadSide ==
    ASSUME PluginsInv, PluginsTypeOK', ObservePlugins, DemosKnown',
           UNCHANGED <<admin, adding, integrations>>
    PROVE  CrossedIsKnown' /\ UninstalledHasNone'
<1>1. uninstalled' = {p \in uninstalled : install'[p] = "not_installed"}
  BY DEF ObservePlugins, LooksAgain, Idle
<1>2. crossed \subseteq crossed'
  BY DEF ObservePlugins, LooksAgain
<1> QED  BY <1>1, <1>2 DEF PluginsInv, DemosKnown, CrossedIsKnown, UninstalledHasNone

\* What a step must show that leaves the loads and their plugins alone.
LEMMA AdminSide ==
    ASSUME PluginsInv, ObservePlugins, DemosKnown', UNCHANGED <<load, folder, binary>>,
           \A p \in Plugin : loaded'[p] \in {loaded[p], binary[p], Nobody}
    PROVE  OneLoad' /\ RunsOwnCode'
<1>1. mixed' = mixed
  BY DEF ObservePlugins, LooksAgain, Overlaps, PluginsInv, PluginsTypeOK
<1> QED  BY <1>1 DEF PluginsInv, OneLoad, RunsOwnCode

LEMMA IdleOrRequest ==
    ASSUME PluginsTypeOK, NEW i \in Installer
    PROVE  /\ load[i].pc = "idle" <=> load[i] = Idle
           /\ load[i].pc # "idle" => load[i] \in LoadRequest
BY DEF PluginsTypeOK, Idle, LoadRequest, LoadStep

LEMMA CheckKeepsPlugins ==
    ASSUME PluginsInv, ObservePlugins, DemosKnown',
           NEW i \in Installer, NEW p \in Plugin, CheckInstalling(i, p)
    PROVE  PluginsInv'
<1> USE DEF PluginsInv, DemosKnown
<1>1. /\ load[i] = Idle
      /\ load' = [load EXCEPT ![i] = ReadPlugin(p)]
      /\ UNCHANGED <<serving, rowVars, binary, folder, loaded, admin, adding, integrations>>
      /\ \A q \in Plugin : install[q] # "installing"
  BY DEF CheckInstalling
<1>2. ReadPlugin(p) \in LoadRequest /\ ReadPlugin(p).pc = "checked" /\ ReadPlugin(p) # Idle
  BY DEF ReadPlugin, LoadRequest, LoadStep, PluginsTypeOK, Idle
<1>3. PluginsTypeOK'
  BY <1>1, <1>2 DEF PluginsTypeOK, rowVars, ObservePlugins, LooksAgain, Overlaps, Unloading,
                     AdminRequest, Idle
<1>4. CrossedIsKnown' /\ UninstalledHasNone'
  BY <1>1, <1>3, LoadSide
<1>5. OneLoad'
  <2> SUFFICES ASSUME ~mixed' PROVE OneLoad'
    BY DEF OneLoad
  <2>1. ~mixed /\ ~Overlaps
    BY DEF ObservePlugins, LooksAgain
  <2>2. \A j \in Installer \ {i} : load[j] = Idle
    <3> SUFFICES ASSUME NEW j \in Installer \ {i}, load[j] # Idle PROVE FALSE
      OBVIOUS
    <3>1. load'[i] # Idle
      BY <1>1, <1>2 DEF PluginsTypeOK
    <3>2. load[j] \in LoadRequest /\ load[j].of \in Plugin
      BY IdleOrRequest DEF LoadRequest
    <3>3. load[j].pc = "checked" \/ (Running(j) /\ install[load[j].of] # "installing")
      BY <1>1, <3>2, IdleOrRequest DEF Running
    <3> QED  BY <2>1, <3>1, <3>3, <1>1 DEF Overlaps
  <2>3. \A j \in Installer : load'[j] # Idle => j = i
    BY <1>1, <2>2 DEF PluginsTypeOK
  <2>4. \A j \in Installer : load'[j].pc \in {"idle", "checked"}
    BY <1>1, <1>2, <2>2 DEF PluginsTypeOK, Idle
  <2> QED  BY <2>3, <2>4 DEF OneLoad
<1>6. RunsOwnCode'
  BY <1>1 DEF RunsOwnCode, ObservePlugins, LooksAgain
<1> QED  BY <1>3, <1>4, <1>5, <1>6

\* A load that goes on, or ends, overlaps with no other.
LEMMA GoingOn ==
    ASSUME PluginsInv, ObservePlugins, DemosKnown', NEW i \in Installer, NEW x,
           load[i] # Idle, load' = [load EXCEPT ![i] = x]
    PROVE  /\ mixed' = mixed
           /\ ~mixed => \A j \in Installer \ {i} : load'[j] = Idle
<1>1. /\ \A j \in Installer \ {i} : load'[j] = load[j]
      /\ \A j \in Installer : load[j] = Idle => load'[j] = Idle
  BY DEF PluginsInv, PluginsTypeOK
<1>2. ~Overlaps
  BY <1>1 DEF Overlaps
<1>3. mixed' = mixed
  BY <1>2 DEF ObservePlugins, LooksAgain, PluginsInv, PluginsTypeOK
<1>4. ASSUME ~mixed, NEW j \in Installer \ {i} PROVE load'[j] = Idle
  <2>1. load[j] = Idle
    BY <1>4 DEF PluginsInv, OneLoad
  <2> QED  BY <2>1, <1>1
<1> QED  BY <1>3, <1>4

\* How the row of a load's plugin is written.
LEMMA EndKeepsPlugins ==
    ASSUME PluginsInv, ObservePlugins, DemosKnown', NEW i \in Installer, load[i].pc # "idle",
           NEW s \in InstallState, NEW o \in OperStatus, EndLoad(i, s, o),
           \/ UNCHANGED loaded
           \/ load[i].pc = "load" /\ loaded' = [loaded EXCEPT ![load[i].of] = load[i].got]
    PROVE  PluginsInv'
<1> USE DEF PluginsInv, DemosKnown
<1>1. /\ load[i] \in LoadRequest /\ load[i] # Idle /\ load[i].of \in Plugin
      /\ load' = [load EXCEPT ![i] = Idle]
      /\ UNCHANGED <<serving, binary, folder, admin, adding, integrations>>
  BY IdleOrRequest DEF EndLoad, LoadRequest
<1>2. mixed' = mixed /\ (~mixed => \A j \in Installer \ {i} : load'[j] = Idle)
  BY <1>1, GoingOn
<1>3. PluginsTypeOK'
  <2>1. /\ install' \in [Plugin -> InstallState] /\ oper' \in [Plugin -> OperStatus]
        /\ late' \in SUBSET Plugin
    BY <1>1 DEF EndLoad, UpdatePlugin, rowVars, PluginsTypeOK
  <2>2. loaded' \in [Plugin -> Plugin \cup {Nobody}]
    BY <1>1 DEF PluginsTypeOK, LoadRequest
  <2>3. load' \in [Installer -> {Idle} \cup LoadRequest]
    BY <1>1 DEF PluginsTypeOK
  <2> QED  BY <1>1, <1>2, <2>1, <2>2, <2>3
             DEF PluginsTypeOK, ObservePlugins, LooksAgain, Unloading, AdminRequest, Idle
<1>4. CrossedIsKnown' /\ UninstalledHasNone'
  BY <1>1, <1>3, LoadSide
<1>5. OneLoad'
  BY <1>1, <1>2 DEF OneLoad, PluginsTypeOK, Idle
<1>6. RunsOwnCode'
  BY <1>1, <1>2 DEF RunsOwnCode, OneLoad, PluginsTypeOK, LoadRequest
<1> QED  BY <1>3, <1>4, <1>5, <1>6

LEMMA LoadKeepsPlugins ==
    ASSUME PluginsInv, ObservePlugins, DemosKnown', NEW i \in Installer, InstallStepOf(i)
    PROVE  PluginsInv'
<1> USE DEF PluginsInv, DemosKnown
<1>1. CASE FinishLoad(i)
  BY <1>1, EndKeepsPlugins DEF FinishLoad, InstallState, OperStatus
<1>2. CASE FailLoad(i)
  BY <1>2, EndKeepsPlugins DEF FailLoad, Running, InstallState, OperStatus
<1>3. CASE FailStart(i)
  BY <1>3, EndKeepsPlugins DEF FailStart, InstallState, OperStatus
<1>4. CASE GiveUpLoad(i)
  <2>1. load[i] # Idle /\ load' = [load EXCEPT ![i] = Idle]
    BY <1>4 DEF GiveUpLoad, Idle
  <2>2. mixed' = mixed
    BY <2>1, GoingOn
  <2>3. PluginsTypeOK'
    BY <1>4, <2>1, <2>2
       DEF GiveUpLoad, PluginsTypeOK, rowVars, ObservePlugins, LooksAgain, Unloading, AdminRequest, Idle
  <2>4. CrossedIsKnown' /\ UninstalledHasNone'
    BY <1>4, <2>3, LoadSide DEF GiveUpLoad
  <2>5. OneLoad' /\ RunsOwnCode'
    BY <1>4, <2>1, <2>2 DEF GiveUpLoad, OneLoad, RunsOwnCode, PluginsTypeOK, Idle
  <2> QED  BY <2>3, <2>4, <2>5
<1>5. ASSUME NEW x \in LoadRequest, load[i] # Idle, load' = [load EXCEPT ![i] = x],
             x.of = load[i].of,
             UNCHANGED <<serving, admin, adding, integrations>>,
             install' \in [Plugin -> InstallState] /\ oper' \in [Plugin -> OperStatus],
             late' \in SUBSET Plugin,
             binary' \in [Plugin -> Plugin \cup {Nobody}],
             loaded' \in [Plugin -> Plugin \cup {Nobody}],
             folder' \in Plugin \cup {Nobody},
             ~mixed => /\ x.pc \in {"read", "manifest"} => folder' = x.of
                       /\ x.pc \in {"manifest", "store", "load", "services"} => x.got = x.of
                       /\ x.pc \in {"store", "load", "services"} => x.as = x.of,
             ~mixed => \A p \in Plugin : loaded'[p] \in {p, Nobody} /\ binary'[p] \in {p, Nobody}
      PROVE  PluginsInv'
  <2>1. mixed' = mixed /\ (~mixed => \A j \in Installer \ {i} : load'[j] = Idle)
    BY <1>5, GoingOn
  <2>2. load'[i] = x
    BY <1>5 DEF PluginsTypeOK
  <2>3. PluginsTypeOK'
    BY <1>5, <2>1 DEF PluginsTypeOK, ObservePlugins, LooksAgain, Unloading, AdminRequest, Idle
  <2>4. CrossedIsKnown' /\ UninstalledHasNone'
    BY <1>5, <2>3, LoadSide
  <2>5. OneLoad'
    BY <1>5, <2>1, <2>2 DEF OneLoad, Idle
  <2>6. RunsOwnCode'
    BY <1>5, <2>1 DEF RunsOwnCode
  <2> QED  BY <2>3, <2>4, <2>5, <2>6
<1>6. ASSUME load[i].pc # "idle"
      PROVE  /\ load[i] # Idle /\ load[i] \in LoadRequest
             /\ load[i].of \in Plugin /\ load[i].got \in Plugin \cup {Nobody}
             /\ load[i].as \in Plugin \cup {Nobody}
  BY <1>6, IdleOrRequest DEF LoadRequest
<1>7. ~mixed => \A p \in Plugin : loaded[p] \in {p, Nobody} /\ binary[p] \in {p, Nobody}
  BY DEF RunsOwnCode
<1> USE DEF PluginsTypeOK, rowVars, Goto
<1>8. CASE BeginInstall(i)
  <2> DEFINE x == [load[i] EXCEPT !.pc = "download"]
  <2>1. load[i].pc = "checked"
    BY <1>8 DEF BeginInstall
  <2>2. x \in LoadRequest /\ x.of = load[i].of /\ x.pc = "download"
    BY <2>1, <1>6 DEF LoadRequest, LoadStep
  <2> QED  BY <1>5, <1>6, <1>7, <1>8, <2>1, <2>2 DEF BeginInstall, UpdatePlugin, InstallState, LoadRequest
<1>9. CASE Download(i)
  <2> DEFINE x == [load[i] EXCEPT !.pc = "read"]
  <2>1. load[i].pc = "download"
    BY <1>9 DEF Download
  <2>2. x \in LoadRequest /\ x.of = load[i].of /\ x.pc = "read"
    BY <2>1, <1>6 DEF LoadRequest, LoadStep
  <2> QED  BY <1>5, <1>6, <1>7, <1>9, <2>1, <2>2 DEF Download
<1>10. CASE ReadBinary(i)
  <2> DEFINE x == [load[i] EXCEPT !.pc = "manifest", !.got = folder]
  <2>1. load[i].pc = "read"
    BY <1>10 DEF ReadBinary
  <2>2. x \in LoadRequest /\ x.of = load[i].of /\ x.pc = "manifest" /\ x.got = folder
    BY <2>1, <1>6 DEF LoadRequest, LoadStep
  <2>3. load' = [load EXCEPT ![i] = x]
    BY <1>10 DEF ReadBinary
  <2> HIDE DEF x
  <2> QED  BY <1>5, <1>6, <1>7, <1>10, <2>1, <2>2, <2>3, ZenonT(30) DEF ReadBinary, OneLoad
<1>11. CASE ReadManifest(i)
  <2> DEFINE x == [load[i] EXCEPT !.pc = "store", !.as = folder]
  <2>1. load[i].pc = "manifest"
    BY <1>11 DEF ReadManifest
  <2>2. x \in LoadRequest /\ x.of = load[i].of /\ x.pc = "store" /\ x.as = folder /\ x.got = load[i].got
    BY <2>1, <1>6 DEF LoadRequest, LoadStep
  <2>3. load' = [load EXCEPT ![i] = x]
    BY <1>11 DEF ReadManifest
  <2> HIDE DEF x
  <2> QED  BY <1>5, <1>6, <1>7, <1>11, <2>1, <2>2, <2>3, ZenonT(30) DEF ReadManifest, OneLoad
<1>12. CASE StoreBinary(i)
  <2> DEFINE x == [load[i] EXCEPT !.pc = "load"]
  <2>1. load[i].pc = "store"
    BY <1>12 DEF StoreBinary
  <2>2. x \in LoadRequest /\ x.of = load[i].of /\ x.pc = "load" /\ x.as = load[i].as /\ x.got = load[i].got
    BY <2>1, <1>6 DEF LoadRequest, LoadStep
  <2>3. load' = [load EXCEPT ![i] = x]
    BY <1>12 DEF StoreBinary
  <2> HIDE DEF x
  <2> QED  BY <1>5, <1>6, <1>7, <1>12, <2>1, <2>2, <2>3 DEF StoreBinary, OneLoad
<1>13. CASE StartPlugin(i)
  <2> DEFINE x == [load[i] EXCEPT !.pc = "services"]
  <2>1. load[i].pc = "load"
    BY <1>13 DEF StartPlugin
  <2>2. x \in LoadRequest /\ x.of = load[i].of /\ x.pc = "services" /\ x.as = load[i].as /\ x.got = load[i].got
    BY <2>1, <1>6 DEF LoadRequest, LoadStep
  <2>3. load' = [load EXCEPT ![i] = x]
    BY <1>13 DEF StartPlugin
  <2> HIDE DEF x
  <2> QED  BY <1>5, <1>6, <1>7, <1>13, <2>1, <2>2, <2>3 DEF StartPlugin, OneLoad
<1> QED  BY <1>1, <1>2, <1>3, <1>4, <1>8, <1>9, <1>10, <1>11, <1>12, <1>13 DEF InstallStepOf

\* The requests that unload a plugin, and those that end.
LEMMA AdminKeepsPlugins ==
    ASSUME PluginsInv, ObservePlugins, DemosKnown',
           DisableType \/ UnLoadPlugin \/ WriteUninstalled \/ WriteStatus \/ AbortRequest
    PROVE  PluginsInv'
<1> USE DEF PluginsInv, DemosKnown
<1>1. admin # Idle /\ admin \in AdminRequest /\ admin.of \in Plugin /\ admin.install \in InstallState
  BY DEF PluginsTypeOK, DisableType, UnLoadPlugin, WriteUninstalled, WriteStatus, AbortRequest,
         Idle, AdminRequest
<1>2. OneLoad' /\ RunsOwnCode'
  BY AdminSide, <1>1
     DEF PluginsTypeOK, DisableType, UnLoadPlugin, WriteUninstalled, WriteStatus, AbortRequest, rowVars
<1>3. UNCHANGED <<mixed, adding, integrations>>
  BY DEF ObservePlugins, LooksAgain, Overlaps, PluginsTypeOK,
         DisableType, UnLoadPlugin, WriteUninstalled, WriteStatus, AbortRequest, rowVars
<1>4. crossed \ {admin.of} \subseteq crossed'
      /\ crossed' \subseteq crossed \cup adding
  BY <1>3 DEF ObservePlugins, LooksAgain
<1>5. CASE DisableType
  <2>1. /\ admin.pc = "uninstall" /\ admin'.pc = "unload" /\ admin'.of = admin.of
        /\ admin' \in AdminRequest
        /\ admin.of \notin integrations
        /\ UNCHANGED <<serving, rowVars, binary, folder, loaded, load>>
    BY <1>1, <1>5 DEF DisableType, AdminRequest, AdminStep
  <2>2. Unloading = {admin.of}
    BY <2>1 DEF Unloading
  <2>3. /\ crossed' = (crossed \ {admin.of}) \cup ({admin.of} \cap adding)
        /\ uninstalled' = {p \in uninstalled : install[p] = "not_installed"}
    BY <2>1, <2>2, <1>3 DEF ObservePlugins, LooksAgain, rowVars
  <2>4. PluginsTypeOK'
    BY <1>3, <2>1, <2>3 DEF PluginsTypeOK, rowVars
  <2>5. CrossedIsKnown' /\ UninstalledHasNone'
    BY <1>3, <2>1, <2>3 DEF CrossedIsKnown, UninstalledHasNone, rowVars
  <2> QED  BY <1>2, <2>4, <2>5
<1>6. CASE UnLoadPlugin
  <2>1. /\ admin.pc = "unload" /\ admin'.pc = "uninstalled" /\ admin'.of = admin.of
        /\ admin' \in AdminRequest
        /\ loaded' \in [Plugin -> Plugin \cup {Nobody}]
        /\ UNCHANGED <<serving, rowVars, binary, folder, load>>
    BY <1>1, <1>6 DEF UnLoadPlugin, AdminRequest, AdminStep, PluginsTypeOK
  <2>2. /\ crossed' = crossed \cup ({admin.of} \cap adding)
        /\ uninstalled' = {p \in uninstalled : install[p] = "not_installed"}
    BY <2>1, <1>3 DEF ObservePlugins, LooksAgain, Unloading, rowVars
  <2>3. PluginsTypeOK'
    BY <1>3, <2>1, <2>2 DEF PluginsTypeOK, rowVars
  <2>4. CrossedIsKnown' /\ UninstalledHasNone'
    BY <1>3, <2>1, <2>2 DEF CrossedIsKnown, UninstalledHasNone, rowVars
  <2> QED  BY <1>2, <2>3, <2>4
<1>7. CASE WriteUninstalled
  <2>1. /\ admin.pc = "uninstalled" /\ admin' = Idle
        /\ install' = [install EXCEPT ![admin.of] = "not_installed"]
        /\ oper' = [oper EXCEPT ![admin.of] = "disabled"] /\ late' = late \ {admin.of}
        /\ UNCHANGED <<serving, binary, folder, load, loaded>>
    BY <1>7 DEF WriteUninstalled, UpdatePlugin
  <2>2. /\ crossed' = crossed
        /\ uninstalled' \subseteq uninstalled \cup {admin.of}
        /\ uninstalled' \subseteq {p \in Plugin : install'[p] = "not_installed"}
    BY <1>1, <2>1, <1>3 DEF ObservePlugins, LooksAgain, Unloading, PluginsTypeOK, Idle
  <2>3. PluginsTypeOK'
    BY <1>1, <1>3, <2>1, <2>2 DEF PluginsTypeOK, InstallState, OperStatus
  <2>4. admin.of \in adding \cup integrations => admin.of \in crossed
    BY <2>1 DEF CrossedIsKnown
  <2>5. CrossedIsKnown'
    BY <1>3, <2>1, <2>2, <2>4 DEF CrossedIsKnown, Idle
  <2>6. UninstalledHasNone'
    BY <1>3, <2>2, <2>4 DEF UninstalledHasNone
  <2> QED  BY <1>2, <2>3, <2>5, <2>6
<1>8. CASE WriteStatus
  <2>1. /\ admin.pc \in {"enable", "disable"} /\ admin' = Idle
        /\ install' = [install EXCEPT ![admin.of] = admin.install]
        /\ oper' \in [Plugin -> OperStatus] /\ late' = late \ {admin.of}
        /\ UNCHANGED <<serving, binary, folder, load, loaded>>
    BY <1>1, <1>8 DEF WriteStatus, UpdatePlugin, PluginsTypeOK, OperStatus
  <2>2. /\ crossed' = crossed
        /\ uninstalled' = {p \in uninstalled : install'[p] = "not_installed"}
    BY <2>1, <1>3 DEF ObservePlugins, LooksAgain, Unloading, Idle
  <2>3. PluginsTypeOK'
    BY <1>1, <1>3, <2>1, <2>2 DEF PluginsTypeOK
  <2>4. CrossedIsKnown' /\ UninstalledHasNone'
    BY <1>3, <2>1, <2>2 DEF CrossedIsKnown, UninstalledHasNone, Idle
  <2> QED  BY <1>2, <2>3, <2>4
<1>9. CASE AbortRequest
  <2>1. /\ admin' = Idle
        /\ UNCHANGED <<serving, rowVars, binary, folder, load, loaded>>
    BY <1>9 DEF AbortRequest
  <2>2. /\ crossed' = crossed
        /\ uninstalled' = {p \in uninstalled : install[p] = "not_installed"}
    BY <2>1, <1>3 DEF ObservePlugins, LooksAgain, Unloading, Idle, rowVars
  <2>3. PluginsTypeOK'
    BY <1>3, <2>1, <2>2 DEF PluginsTypeOK, rowVars
  <2>4. CrossedIsKnown' /\ UninstalledHasNone'
    BY <1>3, <2>1, <2>2 DEF CrossedIsKnown, UninstalledHasNone, Idle, rowVars
  <2> QED  BY <1>2, <2>3, <2>4
<1> QED  BY <1>5, <1>6, <1>7, <1>8, <1>9

\* The steps of one plugin's row, and of the integrations made with it.
LEMMA RowKeepsPlugins ==
    ASSUME PluginsInv, ObservePlugins, DemosKnown', NEW p \in Plugin,
           \/ AdminStepOf(p) \/ CheckPlugin(p) \/ CreateIntegration(p)
           \/ DeleteIntegration(p) \/ RowAges(p)
    PROVE  PluginsInv'
<1> USE DEF PluginsInv, DemosKnown
<1>1. CASE BeginUninstall(p) \/ Ask("enable", p) \/ Ask("disable", p)
  <2>1. PICK step \in {"uninstall", "enable", "disable"} : Ask(step, p)
    BY <1>1 DEF BeginUninstall
  <2>2. /\ admin = Idle /\ admin' = [pc |-> step, of |-> p, install |-> install[p]]
        /\ UNCHANGED <<serving, rowVars, binary, folder, loaded, load, adding, integrations>>
    BY <2>1 DEF Ask
  <2>3. admin' \in AdminRequest /\ admin'.pc \notin {"unload", "uninstalled"}
    BY <2>2 DEF AdminRequest, AdminStep, PluginsTypeOK
  <2>4. /\ OneLoad' /\ RunsOwnCode'
        /\ mixed' = mixed /\ crossed' = crossed
        /\ uninstalled' = {q \in uninstalled : install[q] = "not_installed"}
    BY <2>2, <2>3, AdminSide
       DEF ObservePlugins, LooksAgain, Overlaps, Unloading, PluginsTypeOK, Idle, rowVars
  <2>5. PluginsTypeOK'
    BY <2>2, <2>3, <2>4 DEF PluginsTypeOK, rowVars
  <2>6. CrossedIsKnown' /\ UninstalledHasNone'
    BY <2>2, <2>3, <2>4 DEF CrossedIsKnown, UninstalledHasNone, rowVars
  <2> QED  BY <2>4, <2>5, <2>6
<1>2. CASE Reboot(p)
  <2>1. PICK o \in {"enabled", "failed"} : oper' = [oper EXCEPT ![p] = o]
    BY <1>2 DEF Reboot
  <2>2. /\ late' = late \ {p}
        /\ UNCHANGED <<serving, install, binary, folder, loaded, load, admin, adding, integrations>>
    BY <1>2 DEF Reboot
  <2>3. OneLoad' /\ RunsOwnCode' /\ mixed' = mixed
    BY <2>2, AdminSide DEF ObservePlugins, LooksAgain, Overlaps, PluginsTypeOK
  <2>4. PluginsTypeOK'
    BY <2>1, <2>2, <2>3
       DEF PluginsTypeOK, OperStatus, ObservePlugins, LooksAgain, Unloading, AdminRequest, Idle
  <2> QED  BY <2>2, <2>3, <2>4, LoadSide
<1>3. CASE RowAges(p)
  <2>1. /\ late' = late \cup {p}
        /\ UNCHANGED <<serving, install, oper, binary, folder, loaded, load, admin, adding, integrations>>
    BY <1>3 DEF RowAges
  <2>2. OneLoad' /\ RunsOwnCode' /\ mixed' = mixed
    BY <2>1, AdminSide DEF ObservePlugins, LooksAgain, Overlaps, PluginsTypeOK
  <2>3. PluginsTypeOK'
    BY <2>1, <2>2 DEF PluginsTypeOK, ObservePlugins, LooksAgain, Unloading, AdminRequest, Idle
  <2> QED  BY <2>1, <2>2, <2>3, LoadSide
<1>4. CASE CheckPlugin(p) \/ CreateIntegration(p) \/ DeleteIntegration(p)
  <2>1. UNCHANGED <<serving, rowVars, binary, folder, loaded, load, admin>>
    BY <1>4 DEF CheckPlugin, CreateIntegration, DeleteIntegration
  <2>2. OneLoad' /\ RunsOwnCode' /\ mixed' = mixed
    BY <2>1, AdminSide DEF ObservePlugins, LooksAgain, Overlaps, PluginsTypeOK
  <2>3. /\ adding' \in SUBSET Plugin /\ integrations' \in SUBSET Plugin
        /\ adding' \subseteq adding \cup {p}
        /\ p \in adding' \ adding => install[p] # "not_installed"
        /\ integrations' \subseteq integrations \cup adding
    BY <1>4 DEF CheckPlugin, CreateIntegration, DeleteIntegration, PluginsTypeOK
  <2>4. /\ uninstalled' = {q \in uninstalled : install[q] = "not_installed"}
        /\ crossed' = crossed \cup (Unloading \cap adding')
        /\ Unloading = IF admin.pc \in {"unload", "uninstalled"} THEN {admin.of} ELSE {}
    BY <2>1 DEF ObservePlugins, LooksAgain, Unloading, rowVars
  <2>5. PluginsTypeOK'
    BY <2>1, <2>2, <2>3, <2>4 DEF PluginsTypeOK, rowVars
  <2>6. CrossedIsKnown'
    BY <2>1, <2>3, <2>4 DEF CrossedIsKnown, rowVars
  <2>7. UninstalledHasNone'
    BY <2>1, <2>3, <2>4 DEF CrossedIsKnown, UninstalledHasNone
  <2> QED  BY <2>2, <2>5, <2>6, <2>7
<1> QED  BY <1>1, <1>2, <1>3, <1>4 DEF AdminStepOf

\* The sweep, a stop of the service and its start.
LEMMA ServiceKeepsPlugins ==
    ASSUME PluginsInv, ObservePlugins, DemosKnown',
           UpdatePluginInstallTimedOut \/ CrashService \/ BootService
    PROVE  PluginsInv'
<1> USE DEF PluginsInv, DemosKnown
<1>1. CASE UpdatePluginInstallTimedOut
  <2>1. /\ install' \in [Plugin -> InstallState] /\ oper' \in [Plugin -> OperStatus]
        /\ late' \in SUBSET Plugin
        /\ UNCHANGED <<serving, binary, folder, loaded, load, admin, adding, integrations>>
    BY <1>1 DEF UpdatePluginInstallTimedOut, PluginsTypeOK, InstallState, OperStatus
  <2>2. OneLoad' /\ RunsOwnCode' /\ mixed' = mixed
    BY <2>1, AdminSide DEF ObservePlugins, LooksAgain, Overlaps, PluginsTypeOK
  <2>3. PluginsTypeOK'
    BY <2>1, <2>2 DEF PluginsTypeOK, ObservePlugins, LooksAgain, Unloading, AdminRequest, Idle
  <2> QED  BY <2>1, <2>2, <2>3, LoadSide
<1>2. CASE CrashService
  <2>1. /\ serving' = FALSE
        /\ loaded' = [q \in Plugin |-> Nobody] /\ load' = [i \in Installer |-> Idle]
        /\ admin' = Idle /\ adding' = {}
        /\ UNCHANGED <<rowVars, binary, folder, integrations>>
    BY <1>2 DEF CrashService
  <2>2. /\ mixed' = mixed /\ crossed' = crossed
        /\ uninstalled' = {q \in uninstalled : install[q] = "not_installed"}
    BY <2>1 DEF ObservePlugins, LooksAgain, Overlaps, PluginsTypeOK, Unloading, Idle, rowVars
  <2>3. PluginsTypeOK'
    BY <2>1, <2>2 DEF PluginsTypeOK, rowVars
  <2>4. OneLoad' /\ RunsOwnCode'
    BY <2>1, <2>2 DEF OneLoad, RunsOwnCode, Idle
  <2>5. CrossedIsKnown' /\ UninstalledHasNone'
    BY <2>1, <2>2 DEF CrossedIsKnown, UninstalledHasNone, Idle, rowVars
  <2> QED  BY <2>3, <2>4, <2>5
<1>3. CASE BootService
  <2>1. /\ serving' = TRUE
        /\ \A q \in Plugin : loaded'[q] \in {loaded[q], binary[q], Nobody}
        /\ loaded' \in [Plugin -> Plugin \cup {Nobody}]
        /\ UNCHANGED <<rowVars, binary, folder, load, admin, adding, integrations>>
    BY <1>3 DEF BootService, PluginsTypeOK
  <2>2. OneLoad' /\ RunsOwnCode' /\ mixed' = mixed
    BY <2>1, AdminSide DEF ObservePlugins, LooksAgain, Overlaps, PluginsTypeOK
  <2>3. PluginsTypeOK'
    BY <2>1, <2>2 DEF PluginsTypeOK, ObservePlugins, LooksAgain, Unloading, AdminRequest, Idle, rowVars
  <2> QED  BY <2>1, <2>2, <2>3, LoadSide
<1> QED  BY <1>1, <1>2, <1>3

LEMMA DemoKeepsPlugins ==
    ASSUME PluginsInv, ObservePlugins, DemosKnown',
           PurgeSampleData \/ \E p \in Plugin : DemoStepOf(p)
    PROVE  PluginsInv'
<1> USE DEF PluginsInv, DemosKnown
<1>1. UNCHANGED <<serving, rowVars, binary, folder, loaded, load, admin, adding, integrations>>
  BY DEF PurgeSampleData, DemoStepOf, LoadPluginDemoData, CreateDemoIntegration, EndDemoLoad,
         DeleteDemoIntegration, KeepsAll
<1>2. OneLoad' /\ RunsOwnCode' /\ mixed' = mixed
  BY <1>1, AdminSide DEF ObservePlugins, Overlaps, PluginsTypeOK
<1>3. PluginsTypeOK'
  BY <1>1, <1>2 DEF PluginsTypeOK, rowVars, ObservePlugins, LooksAgain, Unloading, AdminRequest, Idle
<1> QED  BY <1>1, <1>2, <1>3, LoadSide

LEMMA PluginsInvariant == PluginsSpec => []PluginsInv
<1>1. ASSUME PluginsInit PROVE PluginsInv
  <2>1. PluginsTypeOK
    BY <1>1 DEF PluginsInit, PluginsTypeOK, InstallState, OperStatus
  <2> QED  BY <1>1, <2>1
           DEF PluginsInit, PluginsInv, OneLoad, RunsOwnCode, CrossedIsKnown, DemosKnown,
               UninstalledHasNone, Idle
<1>2. ASSUME PluginsInv, [PluginsNext]_pluginVars PROVE PluginsInv'
  <2>1. CASE UNCHANGED pluginVars
    BY <1>2, <2>1
       DEF pluginVars, rowVars, ghosts, PluginsInv, PluginsTypeOK, OneLoad, RunsOwnCode,
           CrossedIsKnown, DemosKnown, demoVars, UninstalledHasNone
  <2>2. CASE PluginsNext
    BY <1>2, <2>2, DemosStayKnown, DemoKeepsPlugins, CheckKeepsPlugins, LoadKeepsPlugins,
       AdminKeepsPlugins, RowKeepsPlugins, ServiceKeepsPlugins DEF PluginsNext, PluginsStep
  <2> QED  BY <1>2, <2>1, <2>2
<1> QED  BY <1>1, <1>2, PTL DEF PluginsSpec

\* The plugin service keeps its types.
THEOREM PluginsTypeCorrect == PluginsSpec => []PluginsTypeOK
BY PluginsInvariant, PTL DEF PluginsInv

\* For any plugins and any number of loads at a time, a plugin runs and stores the code of
\* another only after two loads overlapped.
THEOREM OwnCode == PluginsSpec => []RunsOwnCode
BY PluginsInvariant, PTL DEF PluginsInv

\* An uninstalled plugin has integrations only if users added them across the uninstall, or
\* demo data brought them after the uninstall had looked.
THEOREM NoneAfterUninstall == PluginsSpec => []UninstalledHasNone
BY PluginsInvariant, PTL DEF PluginsInv
=============================================================================
