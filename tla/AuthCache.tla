------------------------------ MODULE AuthCache ------------------------------
(***************************************************************************)
(* The auth service for one email address: Check admits requests by what   *)
(* the cache of the process says of the user, or by the row, which it then *)
(* caches; the handlers that change the row remove the user from the       *)
(* cache.                                                                  *)
(*                                                                         *)
(* Rows are kept apart by their external id, which is the connector and    *)
(* the email: an email has several rows when it was created again under    *)
(* another connector, and the one of the lowest id is the user.  The       *)
(* second cache, from external ids to emails, is never read.               *)
(***************************************************************************)
EXTENDS Naturals

CONSTANTS Connector, \* identity providers: with the email, the external ids
          MaxUsers,  \* rows that are followed
          Checker,   \* calls of Check served at a time
          Editor     \* requests to create, update or delete the user at a time

ASSUME AuthAssumption ==
    MaxUsers \in Nat \ {0} /\ "none" \notin Connector /\ Checker \cap Editor = {}

VARIABLES
    rows,        \* rows[n]: the row with the n-th id, or Absent
    made,        \* ids that are used up
    deleted,     \* connectors of the rows that are marked as deleted
    cached,      \* the entry of the user, or Absent
    check,       \* check[c]: the call and the row it has read
    edit,        \* edit[e]: the request, the id and the row it has read
    \* ghosts:
    overtaken,   \* calls of Check whose user was changed since they read the row
    outdated     \* the entry was stored by such a call, or a creation changed the row since

table == <<rows, made, deleted>>
authVars == <<table, cached, check, edit, overtaken, outdated>>

Id == 1..MaxUsers
Role == {"admin", "viewer"}
User == [conn : Connector, role : Role, active : BOOLEAN]
Absent == [conn |-> "none", role |-> "none", active |-> FALSE]
AtRest == [pc |-> "idle", row |-> Absent]
NoEdit == [pc |-> "idle", id |-> 1, row |-> Absent]
Removing == [NoEdit EXCEPT !.pc = "remove"]

AuthInit ==
    /\ rows = [n \in Id |-> Absent] /\ made = 0 /\ deleted = {} /\ cached = Absent
    /\ check = [c \in Checker |-> AtRest] /\ edit = [e \in Editor |-> NoEdit]
    /\ overtaken = {} /\ outdated = FALSE

\* GetUserByEmail takes the first row that is not marked as deleted.
IsFirst(R, n) == R[n] # Absent /\ \A m \in 1..(n - 1) : R[m] = Absent
Shown(R, row) == \E n \in Id : IsFirst(R, n) /\ R[n] = row

\* The external id is unique, also among the rows that are marked.
Taken(k) == k \in deleted \/ \E n \in Id : rows[n].conn = k

\* The ghost follows the user.
WriteRow(n, row) ==
    /\ rows' = [rows EXCEPT ![n] = row]
    /\ overtaken' = overtaken \cup
           {c \in Checker : check[c].pc = "cache" /\ ~Shown(rows', check[c].row)}

---------------------------------------------------------------------------
(* Check: a hit, also one that denies, changes nothing. *)

\* A miss: a user that is absent or not active is denied and not cached.
ReadUser(c) ==
    /\ check[c] = AtRest /\ cached = Absent
    /\ \E n \in Id :
          /\ IsFirst(rows, n) /\ rows[n].active
          /\ check' = [check EXCEPT ![c] = [pc |-> "cache", row |-> rows[n]]]
    /\ overtaken' = overtaken \ {c}
    /\ UNCHANGED <<table, cached, edit, outdated>>

AddUserToCache(c) ==
    /\ check[c].pc = "cache"
    /\ cached' = check[c].row
    /\ outdated' = (c \in overtaken)
    /\ check' = [check EXCEPT ![c] = AtRest]
    /\ overtaken' = overtaken \ {c}
    /\ UNCHANGED <<table, edit>>

\* The entry's five minutes are over.  A hit does not extend them.
ExpireEntry ==
    /\ cached # Absent
    /\ cached' = Absent /\ outdated' = FALSE
    /\ UNCHANGED <<table, check, edit, overtaken>>

---------------------------------------------------------------------------
(* DoCreateUser, UpdateUser, DoDeleteUser and ResetUserPassword. *)

CheckNoUser(e) ==
    /\ edit[e] = NoEdit /\ \A n \in Id : rows[n] = Absent
    /\ edit' = [edit EXCEPT ![e].pc = "create"]
    /\ UNCHANGED <<table, cached, check, overtaken, outdated>>

\* An upsert on the external id: a row that is marked as deleted stays so, a row that has come
\* into being since the check is changed, or there is a row more; nothing is removed from the
\* cache.  is_active is the column's default, whatever the request says, as the false of the
\* request counts as not given.
CreateUser(e) ==
    /\ edit[e].pc = "create"
    /\ \E k \in Connector, r \in Role :
          LET row == [conn |-> k, role |-> r, active |-> TRUE] IN
          \/ k \in deleted /\ UNCHANGED <<rows, made, overtaken>>
          \/ \E n \in Id : rows[n].conn = k /\ WriteRow(n, row) /\ UNCHANGED made
          \/ ~Taken(k) /\ made < MaxUsers /\ WriteRow(made + 1, row) /\ made' = made + 1
    /\ outdated' = (outdated \/ (Shown(rows, cached) /\ ~Shown(rows', cached)))
    /\ edit' = [edit EXCEPT ![e] = NoEdit]
    /\ UNCHANGED <<deleted, cached, check>>

\* By email to update, by id to delete, by external id to change the password.
GetUser(e, step, n) ==
    /\ edit[e] = NoEdit /\ rows[n] # Absent
    /\ step = "update" => IsFirst(rows, n)
    /\ edit' = [edit EXCEPT ![e] = [pc |-> step, id |-> n, row |-> rows[n]]]
    /\ UNCHANGED <<table, cached, check, overtaken, outdated>>

\* Only the columns that differ from the row that was read are written.
Merge(row, read, new) ==
    [conn |-> IF new.conn # read.conn THEN new.conn ELSE row.conn,
     role |-> IF new.role # read.role THEN new.role ELSE row.role,
     active |-> IF new.active # read.active THEN new.active ELSE row.active]

WriteUpdate(e, new) ==
    LET n == edit[e].id
        row == Merge(rows[n], edit[e].row, new)
    IN  /\ row.conn = rows[n].conn \/ ~Taken(row.conn)
        /\ WriteRow(n, row)

\* Mutant: only a change of the role removes the user from the cache.
UpdateUserRoleOnly(e) ==
    /\ edit[e].pc = "update" /\ rows[edit[e].id] # Absent
    /\ \E new \in User :
          /\ WriteUpdate(e, new)
          /\ edit' = [edit EXCEPT ![e] = IF new.role # edit[e].row.role
                                         THEN Removing ELSE NoEdit]
    /\ UNCHANGED <<made, deleted, cached, check, outdated>>

\* Nothing to remove when the request asks for what was read.
UpdateUser(e) ==
    /\ edit[e].pc = "update" /\ rows[edit[e].id] # Absent
    /\ \E new \in User :
          /\ WriteUpdate(e, new)
          /\ edit' = [edit EXCEPT ![e] = IF new # edit[e].row
                                         THEN Removing ELSE NoEdit]
    /\ UNCHANGED <<made, deleted, cached, check, outdated>>

\* Not for the first user of the service.
DeleteUser(e) ==
    LET n == edit[e].id IN
    /\ edit[e].pc = "delete" /\ rows[n] # Absent
    /\ WriteRow(n, Absent)
    /\ deleted' = deleted \cup {rows[n].conn}
    /\ edit' = [edit EXCEPT ![e] = Removing]
    /\ UNCHANGED <<made, cached, check, outdated>>

\* The password is changed elsewhere; the user is removed from the cache all the same.
ResetUserPassword(e) ==
    /\ edit[e].pc = "reset"
    /\ edit' = [edit EXCEPT ![e] = Removing]
    /\ UNCHANGED <<table, cached, check, overtaken, outdated>>

\* The request is refused, or the row is gone or cannot be written.
GiveUpEdit(e) ==
    /\ edit[e].pc \in {"create", "update", "delete", "reset"}
    /\ edit' = [edit EXCEPT ![e] = NoEdit]
    /\ UNCHANGED <<table, cached, check, overtaken, outdated>>

RemoveUserFromCache(e) ==
    /\ edit[e].pc = "remove"
    /\ cached' = Absent /\ outdated' = FALSE
    /\ edit' = [edit EXCEPT ![e] = NoEdit]
    /\ UNCHANGED <<table, check, overtaken>>

---------------------------------------------------------------------------
\* The service restarts: the cache is in its memory.
RestartAuth ==
    /\ cached' = Absent /\ outdated' = FALSE
    /\ check' = [c \in Checker |-> AtRest] /\ edit' = [e \in Editor |-> NoEdit]
    /\ overtaken' = {}
    /\ UNCHANGED table

EditStep(e) ==
    \/ CheckNoUser(e) \/ CreateUser(e)
    \/ \E step \in {"update", "delete", "reset"}, n \in Id : GetUser(e, step, n)
    \/ UpdateUser(e) \/ DeleteUser(e) \/ ResetUserPassword(e) \/ GiveUpEdit(e)
    \/ RemoveUserFromCache(e)

AuthNext ==
    \/ \E c \in Checker : ReadUser(c) \/ AddUserToCache(c)
    \/ \E e \in Editor : EditStep(e)
    \/ ExpireEntry \/ RestartAuth

---------------------------------------------------------------------------
Row == User \cup {Absent}
EditRequest == [pc : {"idle", "create", "update", "delete", "reset", "remove"}, id : Id, row : Row]

AuthTypeOK ==
    /\ rows \in [Id -> Row] /\ made \in 0..MaxUsers /\ deleted \in SUBSET Connector
    /\ cached \in Row
    /\ check \in [Checker -> [pc : {"idle", "cache"}, row : Row]]
    /\ edit \in [Editor -> EditRequest]
    /\ overtaken \in SUBSET Checker /\ outdated \in BOOLEAN

\* Whoever is admitted by the cache is admitted as the user's row says now, unless a request
\* that changed it is just about to remove the entry, or the entry was stored by a call of
\* Check that had read the row before, or a creation changed the row: then it stays until it
\* expires.
CacheIsCurrent ==
    cached # Absent /\ ~Shown(rows, cached) =>
        outdated \/ \E e \in Editor : edit[e].pc = "remove"
=============================================================================
