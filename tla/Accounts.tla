------------------------------ MODULE Accounts ------------------------------
(***************************************************************************)
(* The user row and what is kept beside it (apps/users): the settings, the *)
(* wallet, the coin account and the profile that the post_save signal      *)
(* makes, UserPII, which mirrors the row on every save, and the personal   *)
(* map, whose name and birth data are written into the row.                *)
(*                                                                         *)
(* Every statement commits on its own (no ATOMIC_REQUESTS), a request      *)
(* works on the row it loaded for authentication, or for the personal map  *)
(* it updates, and the mirror is written from that copy after the row.     *)
(* What two requests, or a worker that dies between the statements, leave  *)
(* behind is told apart here.                                              *)
(***************************************************************************)
EXTENDS Integers, FiniteSets

CONSTANTS
    Emails,    \* one user for each
    Handles,
    Values,    \* what a name or a birth date can be
    Requests

Related == {"settings", "wallet", "account", "profile"}

VARIABLES
    row,       \* User: [exists, handle, name, birth]
    rows,      \* the related rows of each user
    pii,       \* UserPII: what it says of name and birth
    map,       \* the users who have a PersonalMapProfile
    request,   \* [pc, email, copy, todo, profile]: the instance loaded, the rows to make,
               \* and the personal map as it was saved
    crossed    \* users whose requests overlapped, or died between two statements

accountVars == <<row, rows, pii, map, request, crossed>>

Nobody == [exists |-> FALSE, handle |-> "", name |-> 0, birth |-> 0]
NoProfile == [name |-> 0, birth |-> 0]
Mirror(copy) == [name |-> copy.name, birth |-> copy.birth]

AccountsInit ==
    /\ row = [e \in Emails |-> Nobody]
    /\ rows = [e \in Emails |-> {}]
    /\ pii = [e \in Emails |-> Mirror(Nobody)]
    /\ map = {}
    /\ request = [r \in Requests |-> [pc |-> "new"]]
    /\ crossed = {}

Busy(e) == \E r \in Requests : request[r].pc \notin {"new", "done"} /\ request[r].email = e
Begins(r, e, pc, copy) ==
    /\ request[r].pc = "new"
    /\ request' = [request EXCEPT ![r] =
         [pc |-> pc, email |-> e, copy |-> copy, todo |-> {}, profile |-> NoProfile]]
    /\ crossed' = IF Busy(e) THEN crossed \cup {e} ELSE crossed
At(r, pc) == request[r].pc = pc
Ends(r) == request' = [request EXCEPT ![r].pc = "done", ![r].profile = NoProfile]
Saves(r, copy, todo) ==
    request' = [request EXCEPT ![r] = [@ EXCEPT !.pc = "signal", !.copy = copy, !.todo = todo,
                                                 !.profile = NoProfile]]

-----------------------------------------------------------------------------
(***************************************************************************)
(* Registration, with a password or by a social account                    *)
(***************************************************************************)
Taken == {row[e].handle : e \in Emails}

\* RegisterSerializer.validate, or the adapter: the handle is free, or one is made.
Register(r, e) ==
    /\ ~row[e].exists
    /\ \E h \in Handles \ Taken, n \in Values, b \in Values :
          Begins(r, e, "insert", [exists |-> TRUE, handle |-> h, name |-> n, birth |-> b])
    /\ UNCHANGED <<row, rows, pii, map>>

\* create_user: email and handle are unique.
Insert(r) ==
    /\ At(r, "insert")
    /\ LET e == request[r].email
           copy == request[r].copy
       IN IF row[e].exists \/ copy.handle \in Taken
          THEN Ends(r) /\ UNCHANGED row
          ELSE row' = [row EXCEPT ![e] = copy] /\ Saves(r, copy, Related)
    /\ UNCHANGED <<rows, pii, map, crossed>>

-----------------------------------------------------------------------------
(***************************************************************************)
(* The post_save signal                                                    *)
(***************************************************************************)
\* get_or_create of one related row, for a user just created.
MakeRelated(r) ==
    /\ At(r, "signal")
    /\ \E x \in request[r].todo :
          /\ rows' = [rows EXCEPT ![request[r].email] = @ \cup {x}]
          /\ request' = [request EXCEPT ![r].todo = @ \ {x}]
    /\ UNCHANGED <<row, pii, map, crossed>>

\* Mistake: the mirror is made with the user and never written again.
MirrorOnce(r) == IF pii[request[r].email].name = 0 THEN Mirror(request[r].copy)
                 ELSE pii[request[r].email]

Mirrored(r) == Mirror(request[r].copy)

WriteMirror(r) ==
    /\ At(r, "signal") /\ request[r].todo = {}
    /\ pii' = [pii EXCEPT ![request[r].email] = Mirrored(r)]
    /\ Ends(r)
    /\ UNCHANGED <<row, rows, map, crossed>>

-----------------------------------------------------------------------------
(***************************************************************************)
(* PATCH users/me and PUT users/me/personal-map                            *)
(***************************************************************************)
\* The row is loaded to authenticate the request.
Load(r, e) ==
    /\ row[e].exists
    /\ Begins(r, e, "loaded", row[e])
    /\ UNCHANGED <<row, rows, pii, map>>

\* ProfileUpdateSerializer: the whole copy is saved with what the caller changed.
Patch(r) ==
    /\ At(r, "loaded")
    /\ \E n \in Values, b \in Values :
          LET copy == [request[r].copy EXCEPT !.name = n, !.birth = b]
          IN row' = [row EXCEPT ![request[r].email] = copy] /\ Saves(r, copy, {})
    /\ UNCHANGED <<rows, pii, map, crossed>>

\* The user's personal map is looked for.
FindMap(r) ==
    /\ At(r, "loaded")
    /\ request' = [request EXCEPT ![r].pc =
                      IF request[r].email \in map THEN "update" ELSE "create"]
    /\ UNCHANGED <<row, rows, pii, map, crossed>>

\* One field is written or both; what was never given is empty.
WritesMap(r, pc) ==
    \E n \in Values \cup {0}, b \in Values \cup {0} :
        request' = [request EXCEPT ![r].pc = pc, ![r].profile = [name |-> n, birth |-> b]]

\* PersonalMapProfileSerializer.create: a user has one map, and the second INSERT of two
\* requests that both found none fails.
CreateMap(r) ==
    /\ At(r, "create")
    /\ IF request[r].email \in map
       THEN Ends(r) /\ UNCHANGED map
       ELSE map' = map \cup {request[r].email} /\ WritesMap(r, "sync")
    /\ UNCHANGED <<row, rows, pii, crossed>>

UpdateMap(r) ==
    /\ At(r, "update")
    /\ WritesMap(r, "reload")
    /\ UNCHANGED <<row, rows, pii, map, crossed>>

\* An updated map goes on with the user it belongs to, who is loaded again.
ReloadUser(r) ==
    /\ At(r, "reload")
    /\ request' = [request EXCEPT ![r].pc = "sync", ![r].copy = row[request[r].email]]
    /\ UNCHANGED <<row, rows, pii, map, crossed>>

Given(new, old) == IF new = 0 THEN old ELSE new

\* _sync_user_fields: only the columns that differ from the copy are saved.
SyncUser(r) ==
    /\ At(r, "sync")
    /\ LET e == request[r].email
           old == request[r].copy
           copy == [old EXCEPT !.name = Given(request[r].profile.name, @),
                               !.birth = Given(request[r].profile.birth, @)]
       IN IF copy = old
          THEN Ends(r) /\ UNCHANGED row
          ELSE /\ row' = [row EXCEPT ![e] = [@ EXCEPT
                            !.name = IF copy.name # old.name THEN copy.name ELSE row[e].name,
                            !.birth = IF copy.birth # old.birth THEN copy.birth
                                      ELSE row[e].birth]]
               /\ Saves(r, copy, {})
    /\ UNCHANGED <<rows, pii, map, crossed>>

-----------------------------------------------------------------------------
\* The worker dies: what has been written stays.
Die(r) ==
    /\ request[r].pc \notin {"new", "done"}
    /\ Ends(r)
    /\ crossed' = crossed \cup {request[r].email}
    /\ UNCHANGED <<row, rows, pii, map>>

AccountsNext ==
    \E r \in Requests :
        \/ \E e \in Emails : Register(r, e) \/ Load(r, e)
        \/ Insert(r) \/ MakeRelated(r) \/ WriteMirror(r)
        \/ Patch(r) \/ FindMap(r) \/ CreateMap(r) \/ UpdateMap(r) \/ ReloadUser(r)
        \/ SyncUser(r) \/ Die(r)

-----------------------------------------------------------------------------
\* At rest, a user whose requests came one after the other and ran to their end has
\* all related rows, and UserPII says what the user row says, whichever of the three
\* ways of changing it was used.
DriftOnlyByOverlap ==
    \A e \in Emails :
        row[e].exists /\ ~Busy(e) /\ e \notin crossed =>
            rows[e] = Related /\ pii[e] = Mirror(row[e])

=============================================================================
