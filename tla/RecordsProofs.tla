---------------------------- MODULE RecordsProofs ----------------------------
(***************************************************************************)
(* Proofs about Accounts, Audit, Likes and Community: rows that requests   *)
(* read, work on and write back without a lock, for any number of users,   *)
(* of requests and of events.  Each shows that the rows agree unless two   *)
(* requests overlapped, or a worker died between two statements.           *)
(***************************************************************************)
EXTENDS Accounts, Audit, Likes, Community, FiniteSetTheorems, SequenceTheorems,
        WellFoundedInduction, TLAPS

-----------------------------------------------------------------------------
(***************************************************************************)
(* Accounts: a request knows the row, unless another one overlapped it     *)
(***************************************************************************)
AccountsSpec == AccountsInit /\ [][AccountsNext]_accountVars

Said == Values \cup {0}
UserRow == [exists : BOOLEAN, handle : Handles \cup {""}, name : Said, birth : Said]
RequestStates ==
    {"insert", "signal", "loaded", "create", "update", "reload", "sync", "done"}
Profile == [name : Said, birth : Said]
Handling == [pc : RequestStates, email : Emails, copy : UserRow, todo : SUBSET Related,
             profile : Profile]

AccountsTypeOK ==
    /\ row \in [Emails -> UserRow]
    /\ rows \in [Emails -> SUBSET Related]
    /\ pii \in [Emails -> [name : Said, birth : Said]]
    /\ map \in SUBSET Emails
    /\ request \in [Requests -> [pc : {"new"}] \cup Handling]
    /\ crossed \in SUBSET Emails

Open(r) == request[r].pc \notin {"new", "done"}

\* Two requests of a user at once are on record.
OneAtATime ==
    \A r, s \in Requests :
        r # s /\ Open(r) /\ Open(s) /\ request[r].email = request[s].email =>
            request[r].email \in crossed

InStep(e) == rows[e] = Related /\ pii[e] = Mirror(row[e])

\* The only request of a user knows the row, and what is still to be written.
Knows(r, e) ==
    /\ At(r, "insert") => ~row[e].exists /\ request[r].copy.exists
    /\ request[r].pc \in {"loaded", "create", "update", "reload", "sync"} =>
          request[r].copy = row[e] /\ row[e].exists /\ InStep(e)
    /\ At(r, "signal") =>
          /\ row[e].exists /\ rows[e] \cup request[r].todo = Related
          /\ Mirror(request[r].copy) = Mirror(row[e])

CopyIsRow ==
    \A r \in Requests :
        Open(r) /\ request[r].email \notin crossed => Knows(r, request[r].email)

AtRest == \A e \in Emails : row[e].exists /\ ~Busy(e) /\ e \notin crossed => InStep(e)

AccountsInv == AccountsTypeOK /\ OneAtATime /\ CopyIsRow /\ AtRest

LEMMA InitAccountsInv == AccountsInit => AccountsInv
<1> SUFFICES ASSUME AccountsInit PROVE AccountsInv
  OBVIOUS
<1>1. AccountsTypeOK
  <2>1. Nobody \in UserRow /\ Mirror(Nobody) \in [name : Said, birth : Said]
    BY DEF Nobody, UserRow, Mirror, Said
  <2>3. [pc |-> "new"] \in [pc : {"new"}]
    OBVIOUS
  <2> QED BY <2>1, <2>3 DEF AccountsInit, AccountsTypeOK
<1>2. \A r \in Requests : request[r].pc = "new"
  BY DEF AccountsInit
<1>3. \A e \in Emails : ~row[e].exists
  BY DEF AccountsInit, Nobody
<1> QED BY <1>1, <1>2, <1>3 DEF AccountsInv, OneAtATime, CopyIsRow, AtRest, Open

\* How a request goes on.
LEMMA RequestsFollow ==
    ASSUME AccountsTypeOK, NEW r \in Requests
    PROVE  /\ \A e \in Emails, pc \in RequestStates, copy \in UserRow :
                Begins(r, e, pc, copy) =>
                    /\ request[r].pc = "new"
                    /\ request' \in [Requests -> [pc : {"new"}] \cup Handling]
                    /\ request'[r].pc = pc /\ request'[r].email = e /\ request'[r].copy = copy
                    /\ request'[r].todo = {}
                    /\ \A s \in Requests : s # r => request'[s] = request[s]
           /\ request[r].pc # "new" =>
                /\ request[r] \in Handling
                /\ Ends(r) =>
                    /\ request' \in [Requests -> [pc : {"new"}] \cup Handling]
                    /\ request'[r].pc = "done" /\ request'[r].email = request[r].email
                    /\ \A s \in Requests : s # r => request'[s] = request[s]
                /\ \A copy \in UserRow, todo \in SUBSET Related :
                     Saves(r, copy, todo) =>
                        /\ request' \in [Requests -> [pc : {"new"}] \cup Handling]
                        /\ request'[r].pc = "signal" /\ request'[r].email = request[r].email
                        /\ request'[r].copy = copy /\ request'[r].todo = todo
                        /\ \A s \in Requests : s # r => request'[s] = request[s]
<1>0. request \in [Requests -> [pc : {"new"}] \cup Handling] /\ "new" \notin RequestStates
  BY DEF AccountsTypeOK, RequestStates
<1>1. ASSUME NEW e \in Emails, NEW pc \in RequestStates, NEW copy \in UserRow,
             Begins(r, e, pc, copy)
      PROVE  /\ request[r].pc = "new" /\ request' \in [Requests -> [pc : {"new"}] \cup Handling]
             /\ request'[r].pc = pc /\ request'[r].email = e /\ request'[r].copy = copy
             /\ request'[r].todo = {}
             /\ \A s \in Requests : s # r => request'[s] = request[s]
  <2> DEFINE value == [pc |-> pc, email |-> e, copy |-> copy, todo |-> {},
                       profile |-> NoProfile]
  <2>1. value \in Handling
    BY DEF Handling, Profile, NoProfile, Said
  <2>2. request[r].pc = "new" /\ request' = [request EXCEPT ![r] = value]
    BY <1>1 DEF Begins
  <2> QED BY <1>0, <2>1, <2>2
<1>2. ASSUME request[r].pc # "new" PROVE request[r] \in Handling
  BY <1>0, <1>2
<1>3. ASSUME request[r].pc # "new", Ends(r)
      PROVE  /\ request' \in [Requests -> [pc : {"new"}] \cup Handling]
             /\ request'[r].pc = "done" /\ request'[r].email = request[r].email
             /\ \A s \in Requests : s # r => request'[s] = request[s]
  <2> DEFINE value == [request[r] EXCEPT !.pc = "done", !.profile = NoProfile]
  <2>1. value \in Handling /\ value.pc = "done" /\ value.email = request[r].email
    BY <1>2, <1>3 DEF Handling, RequestStates, Profile, NoProfile, Said
  <2>2. request' = [request EXCEPT ![r] = value]
    BY <1>3 DEF Ends
  <2> HIDE DEF value
  <2> QED BY <1>0, <2>1, <2>2
<1>4. ASSUME request[r].pc # "new", NEW copy \in UserRow, NEW todo \in SUBSET Related,
             Saves(r, copy, todo)
      PROVE  /\ request' \in [Requests -> [pc : {"new"}] \cup Handling]
             /\ request'[r].pc = "signal" /\ request'[r].email = request[r].email
             /\ request'[r].copy = copy /\ request'[r].todo = todo
             /\ \A s \in Requests : s # r => request'[s] = request[s]
  <2> DEFINE value == [request[r] EXCEPT !.pc = "signal", !.copy = copy, !.todo = todo,
                                         !.profile = NoProfile]
  <2>1. /\ value \in Handling /\ value.pc = "signal" /\ value.email = request[r].email
        /\ value.copy = copy /\ value.todo = todo
    BY <1>2, <1>4 DEF Handling, RequestStates, Profile, NoProfile, Said
  <2>2. request' = [request EXCEPT ![r] = value]
    BY <1>4 DEF Saves
  <2> HIDE DEF value
  <2> QED BY <1>0, <2>1, <2>2
<1> QED BY <1>1, <1>2, <1>3, <1>4

MapChange(r) ==
    \E pc \in {"create", "update", "reload", "sync"},
       copy \in {request[r].copy, row[request[r].email]}, profile \in Profile :
         request' = [request EXCEPT ![r] =
                       [request[r] EXCEPT !.pc = pc, !.copy = copy, !.profile = profile]]

\* The steps of a request about the personal map: it stays the request of its user, and
\* its copy is the one it had or the row of now.
LEMMA MapStepsFollow ==
    ASSUME AccountsTypeOK, NEW r \in Requests,
           FindMap(r) \/ (\E pc \in {"sync", "reload"} : WritesMap(r, pc)) \/ ReloadUser(r),
           request[r].pc # "new"
    PROVE  /\ request' \in [Requests -> [pc : {"new"}] \cup Handling]
           /\ request'[r].pc \in {"create", "update", "reload", "sync"}
           /\ request'[r].email = request[r].email
           /\ request'[r].copy \in {request[r].copy, row[request[r].email]}
           /\ \A s \in Requests : s # r => request'[s] = request[s]
<1>1. request[r] \in Handling /\ row[request[r].email] \in UserRow
  BY RequestsFollow DEF Handling, AccountsTypeOK
<1>0. MapChange(r)
  <2>1. CASE FindMap(r)
    <3> DEFINE pc == IF request[r].email \in map THEN "update" ELSE "create"
    <3>1. request' = [request EXCEPT ![r] = [request[r] EXCEPT !.pc = pc]]
      BY <2>1 DEF FindMap
    <3>2. [request[r] EXCEPT !.pc = pc] =
            [request[r] EXCEPT !.pc = pc, !.copy = request[r].copy,
                               !.profile = request[r].profile]
      BY <1>1 DEF Handling
    <3>3. pc \in {"create", "update", "reload", "sync"} /\ request[r].profile \in Profile
      BY <1>1 DEF Handling
    <3> HIDE DEF pc
    <3> QED BY <3>1, <3>2, <3>3 DEF MapChange
  <2>2. ASSUME NEW pc \in {"sync", "reload"}, WritesMap(r, pc) PROVE MapChange(r)
    <3>1. PICK n \in Values \cup {0}, b \in Values \cup {0} :
            request' = [request EXCEPT ![r].pc = pc,
                                       ![r].profile = [name |-> n, birth |-> b]]
      BY <2>2 DEF WritesMap
    <3> DEFINE profile == [name |-> n, birth |-> b]
    <3>2. profile \in Profile
      BY DEF Profile, Said
    <3>3. request' = [request EXCEPT ![r].pc = pc, ![r].profile = profile]
      BY <3>1
    <3> HIDE DEF profile
    <3>4. request' = [request EXCEPT ![r] =
                        [request[r] EXCEPT !.pc = pc, !.profile = profile]]
      BY <3>3
    <3>5. [request[r] EXCEPT !.pc = pc, !.profile = profile] =
            [request[r] EXCEPT !.pc = pc, !.copy = request[r].copy, !.profile = profile]
      BY <1>1 DEF Handling
    <3> QED BY <3>2, <3>4, <3>5 DEF MapChange
  <2>3. CASE ReloadUser(r)
    <3>1. request' = [request EXCEPT ![r] =
                        [request[r] EXCEPT !.pc = "sync", !.copy = row[request[r].email]]]
      BY <2>3 DEF ReloadUser
    <3>2. [request[r] EXCEPT !.pc = "sync", !.copy = row[request[r].email]] =
            [request[r] EXCEPT !.pc = "sync", !.copy = row[request[r].email],
                               !.profile = request[r].profile]
      BY <1>1 DEF Handling
    <3> QED BY <1>1, <3>1, <3>2 DEF Handling, MapChange
  <2> QED BY <2>1, <2>2, <2>3
<1>2. PICK pc \in {"create", "update", "reload", "sync"},
           copy \in {request[r].copy, row[request[r].email]}, profile \in Profile :
        request' = [request EXCEPT ![r] =
                      [request[r] EXCEPT !.pc = pc, !.copy = copy, !.profile = profile]]
  BY <1>0 DEF MapChange
<1> DEFINE value == [request[r] EXCEPT !.pc = pc, !.copy = copy, !.profile = profile]
<1>3. /\ value \in Handling /\ value.pc = pc /\ value.copy = copy
      /\ value.email = request[r].email
  BY <1>1 DEF Handling, RequestStates
<1>4. request' = [request EXCEPT ![r] = value]
  BY <1>2
<1> HIDE DEF value
<1>5. request \in [Requests -> [pc : {"new"}] \cup Handling]
  BY DEF AccountsTypeOK
<1> QED BY <1>3, <1>4, <1>5

\* A step of one request about one user leaves the others' as they are.
LEMMA StepOfUserKeepsInv ==
    ASSUME AccountsInv, AccountsTypeOK', NEW r \in Requests, NEW e \in Emails,
           request'[r].pc # "new", request'[r].email = e,
           request[r].pc # "new" => request[r].email = e,
           Open(r)' => Open(r) \/ (Busy(e) => e \in crossed'),
           \A s \in Requests : s # r => request'[s] = request[s],
           \A f \in Emails : f # e => /\ row'[f] = row[f] /\ rows'[f] = rows[f]
                                      /\ pii'[f] = pii[f] /\ (f \in crossed <=> f \in crossed'),
           e \in crossed => e \in crossed',
           e \notin crossed' =>
              /\ \A s \in Requests : s # r /\ Open(s) => request[s].email # e
              /\ Open(r)' => Knows(r, e)'
              /\ ~Open(r)' /\ row'[e].exists => InStep(e)'
    PROVE  AccountsInv'
<1>0. AccountsTypeOK /\ OneAtATime /\ CopyIsRow /\ AtRest
  BY DEF AccountsInv
<1>1. \A s \in Requests : s # r => (Open(s)' <=> Open(s)) /\ request'[s].email = request[s].email
  BY DEF Open
<1>2. \A s \in Requests : Open(s) => request[s].email \in Emails
  BY <1>0 DEF AccountsTypeOK, Open, Handling
<1>3. OneAtATime'
  <2>1. ASSUME NEW s \in Requests, s # r, Open(s), Open(r)', request[s].email = e
        PROVE  e \in crossed'
    BY <2>1
  <2> QED BY <1>0, <1>1, <1>2, <2>1 DEF OneAtATime
<1>4. CopyIsRow'
  <2>1. ASSUME NEW s \in Requests, s # r, Open(s), request[s].email \notin crossed'
        PROVE  Knows(s, request[s].email)'
    <3> DEFINE f == request[s].email
    <3>1. f \in Emails /\ f # e /\ f \notin crossed /\ request'[s] = request[s]
      BY <1>2, <2>1
    <3>2. Knows(s, f)
      BY <1>0, <2>1, <3>1 DEF CopyIsRow
    <3>3. row'[f] = row[f] /\ rows'[f] = rows[f] /\ pii'[f] = pii[f]
      BY <3>1
    <3> HIDE DEF f
    <3> QED BY <3>1, <3>2, <3>3 DEF Knows, At, InStep, f
  <2> QED BY <1>1, <2>1 DEF CopyIsRow
<1>5. AtRest'
  <2> SUFFICES ASSUME NEW f \in Emails, row'[f].exists, ~Busy(f)', f \notin crossed'
               PROVE  InStep(f)'
    BY DEF AtRest
  <2>1. CASE f = e
    BY <2>1 DEF Busy, Open
  <2>2. CASE f # e
    <3>1. ~Busy(f)
      BY <1>1, <2>2 DEF Busy, Open
    <3> QED BY <1>0, <2>2, <3>1 DEF AtRest, InStep
  <2> QED BY <2>1, <2>2
<1> QED BY <1>3, <1>4, <1>5 DEF AccountsInv


LEMMA NextAccountsTypeOK ==
    ASSUME AccountsTypeOK, [AccountsNext]_accountVars PROVE AccountsTypeOK'
<1> USE DEF AccountsTypeOK
<1>0. \A r \in Requests : request[r].pc # "new" =>
          /\ request[r].email \in Emails /\ request[r].copy \in UserRow
          /\ request[r].todo \in SUBSET Related
  BY RequestsFollow DEF Handling
<1>r. \A e \in Emails, value \in UserRow :
          [row EXCEPT ![e] = value] \in [Emails -> UserRow]
  OBVIOUS
<1>1. ASSUME NEW r \in Requests, NEW e \in Emails, Register(r, e) PROVE AccountsTypeOK'
  <2>1. PICK h \in Handles, n \in Values, b \in Values :
          Begins(r, e, "insert", [exists |-> TRUE, handle |-> h, name |-> n, birth |-> b])
    BY <1>1 DEF Register
  <2>2. [exists |-> TRUE, handle |-> h, name |-> n, birth |-> b] \in UserRow
    BY DEF UserRow, Said
  <2>3. request' \in [Requests -> [pc : {"new"}] \cup Handling]
    BY <2>1, <2>2, RequestsFollow DEF RequestStates
  <2> QED BY <1>1, <2>1, <2>3 DEF Register, Begins
<1>2. ASSUME NEW r \in Requests, NEW e \in Emails, Load(r, e) PROVE AccountsTypeOK'
  <2>1. request' \in [Requests -> [pc : {"new"}] \cup Handling]
    BY <1>2, RequestsFollow DEF Load, RequestStates
  <2> QED BY <1>2, <2>1 DEF Load, Begins
<1>3. ASSUME NEW r \in Requests, Insert(r) PROVE AccountsTypeOK'
  <2>1. request' \in [Requests -> [pc : {"new"}] \cup Handling]
    BY <1>0, <1>3, RequestsFollow DEF Insert, At
  <2>2. row' \in [Emails -> UserRow]
    BY <1>0, <1>3, <1>r DEF Insert, At
  <2> QED BY <1>3, <2>1, <2>2 DEF Insert
<1>4. ASSUME NEW r \in Requests, MakeRelated(r) PROVE AccountsTypeOK'
  <2>1. PICK x \in request[r].todo :
          /\ rows' = [rows EXCEPT ![request[r].email] = @ \cup {x}]
          /\ request' = [request EXCEPT ![r].todo = @ \ {x}]
    BY <1>4 DEF MakeRelated
  <2>2. request[r] \in Handling
    BY <1>4, RequestsFollow DEF MakeRelated, At
  <2> DEFINE value == [request[r] EXCEPT !.todo = @ \ {x}]
  <2>3. value \in Handling
    BY <2>2 DEF Handling
  <2>4. request' = [request EXCEPT ![r] = value]
    BY <2>1
  <2> HIDE DEF value
  <2>5. request' \in [Requests -> [pc : {"new"}] \cup Handling]
    BY <2>3, <2>4
  <2>6. rows' \in [Emails -> SUBSET Related]
    BY <2>1, <2>2 DEF Handling
  <2> QED BY <1>4, <2>5, <2>6 DEF MakeRelated
<1>5. ASSUME NEW r \in Requests, WriteMirror(r) PROVE AccountsTypeOK'
  <2>1. request' \in [Requests -> [pc : {"new"}] \cup Handling]
    BY <1>5, RequestsFollow DEF WriteMirror, At
  <2>2. Mirrored(r) \in [name : Said, birth : Said]
    BY <1>0, <1>5 DEF WriteMirror, At, Mirrored, Mirror, UserRow
  <2> QED BY <1>5, <2>1, <2>2 DEF WriteMirror
<1>6. ASSUME NEW r \in Requests, Patch(r) PROVE AccountsTypeOK'
  <2>1. PICK n \in Values, b \in Values :
          LET copy == [request[r].copy EXCEPT !.name = n, !.birth = b]
          IN row' = [row EXCEPT ![request[r].email] = copy] /\ Saves(r, copy, {})
    BY <1>6 DEF Patch
  <2> DEFINE copy == [request[r].copy EXCEPT !.name = n, !.birth = b]
  <2>2. copy \in UserRow
    BY <1>0, <1>6 DEF Patch, At, UserRow, Said
  <2>3. row' = [row EXCEPT ![request[r].email] = copy] /\ Saves(r, copy, {})
    BY <2>1
  <2> HIDE DEF copy
  <2>4. request' \in [Requests -> [pc : {"new"}] \cup Handling]
    BY <1>6, <2>2, <2>3, RequestsFollow DEF Patch, At
  <2> QED BY <1>0, <1>6, <2>2, <2>3, <2>4 DEF Patch
<1>7. ASSUME NEW r \in Requests,
             FindMap(r) \/ CreateMap(r) \/ UpdateMap(r) \/ ReloadUser(r)
      PROVE  AccountsTypeOK'
  <2>1. request[r].pc # "new" /\ request[r].email \in Emails
    BY <1>0, <1>7 DEF FindMap, CreateMap, UpdateMap, ReloadUser, At
  <2>2. CASE FindMap(r) \/ ReloadUser(r)
    BY <2>1, <2>2, MapStepsFollow DEF FindMap, ReloadUser
  <2>3. CASE UpdateMap(r)
    BY <2>1, <2>3, MapStepsFollow DEF UpdateMap
  <2>4. CASE CreateMap(r)
    <3>1. CASE Ends(r) /\ UNCHANGED map
      BY <2>1, <2>4, <3>1, RequestsFollow DEF CreateMap
    <3>2. CASE map' = map \cup {request[r].email} /\ WritesMap(r, "sync")
      BY <2>1, <2>4, <3>2, MapStepsFollow DEF CreateMap
    <3> QED BY <2>4, <3>1, <3>2 DEF CreateMap
  <2> QED BY <1>7, <2>2, <2>3, <2>4
<1>8. ASSUME NEW r \in Requests, SyncUser(r) PROVE AccountsTypeOK'
  <2> DEFINE e == request[r].email
             old == request[r].copy
             copy == [old EXCEPT !.name = Given(request[r].profile.name, @),
                                 !.birth = Given(request[r].profile.birth, @)]
  <2>1. e \in Emails /\ old \in UserRow /\ request[r].pc # "new"
    BY <1>0, <1>8 DEF SyncUser, At
  <2>2. copy \in UserRow
    <3>1. request[r].profile \in Profile
      BY <2>1, RequestsFollow DEF Handling
    <3> QED BY <2>1, <3>1 DEF UserRow, Profile, Given
  <2>3. CASE Ends(r) /\ row' = row
    BY <1>8, <2>1, <2>3, RequestsFollow DEF SyncUser
  <2>4. CASE /\ row' = [row EXCEPT ![e] = [@ EXCEPT
                            !.name = IF copy.name # old.name THEN copy.name ELSE row[e].name,
                            !.birth = IF copy.birth # old.birth THEN copy.birth
                                      ELSE row[e].birth]]
             /\ Saves(r, copy, {})
    <3>1. request' \in [Requests -> [pc : {"new"}] \cup Handling]
      BY <2>1, <2>2, <2>4, RequestsFollow
    <3>2. copy.name \in Said /\ copy.birth \in Said
      BY <2>2 DEF UserRow
    <3> HIDE DEF copy, old, e
    <3> DEFINE value == [row[e] EXCEPT
                           !.name = IF copy.name # old.name THEN copy.name ELSE row[e].name,
                           !.birth = IF copy.birth # old.birth THEN copy.birth
                                     ELSE row[e].birth]
    <3>4. value \in UserRow
      BY <2>1, <3>2 DEF UserRow
    <3>5. row' = [row EXCEPT ![e] = value]
      BY <2>4
    <3> HIDE DEF value
    <3>3. row' \in [Emails -> UserRow]
      BY <2>1, <3>4, <3>5
    <3> QED BY <1>8, <3>1, <3>3 DEF SyncUser
  <2> QED BY <1>8, <2>3, <2>4 DEF SyncUser
<1>9. ASSUME NEW r \in Requests, Die(r) PROVE AccountsTypeOK'
  <2>1. request' \in [Requests -> [pc : {"new"}] \cup Handling]
    BY <1>9, RequestsFollow DEF Die
  <2> QED BY <1>0, <1>9, <2>1 DEF Die
<1>10. CASE UNCHANGED accountVars
  BY <1>10 DEF accountVars
<1> QED
  BY <1>1, <1>2, <1>3, <1>4, <1>5, <1>6, <1>7, <1>8, <1>9, <1>10 DEF AccountsNext

LEMMA NextAccountsInv ==
    ASSUME AccountsInv, [AccountsNext]_accountVars PROVE AccountsInv'
<1>0. AccountsTypeOK /\ AccountsTypeOK' /\ OneAtATime /\ CopyIsRow /\ AtRest
  BY NextAccountsTypeOK DEF AccountsInv
<1>e. \A r \in Requests : request[r].pc # "new" =>
          /\ request[r].email \in Emails /\ request[r].copy \in UserRow
          /\ request[r].todo \in SUBSET Related
  BY <1>0, RequestsFollow DEF Handling
<1>a. \A r, s \in Requests :
          s # r /\ Open(r) /\ Open(s) /\ request[r].email \notin crossed =>
              request[s].email # request[r].email
  BY <1>0 DEF OneAtATime
<1>k. \A r \in Requests :
          Open(r) /\ request[r].email \notin crossed => Knows(r, request[r].email)
  BY <1>0 DEF CopyIsRow
<1>t. row \in [Emails -> UserRow] /\ rows \in [Emails -> SUBSET Related]
      /\ pii \in [Emails -> [name : Said, birth : Said]]
  BY <1>0 DEF AccountsTypeOK
<1>1. ASSUME NEW r \in Requests, NEW e \in Emails, Register(r, e) PROVE AccountsInv'
  <2>1. PICK h \in Handles, n \in Values, b \in Values :
          Begins(r, e, "insert", [exists |-> TRUE, handle |-> h, name |-> n, birth |-> b])
    BY <1>1 DEF Register
  <2> DEFINE copy == [exists |-> TRUE, handle |-> h, name |-> n, birth |-> b]
  <2>2. copy \in UserRow /\ copy.exists
    BY DEF UserRow, Said
  <2>3. Begins(r, e, "insert", copy)
    BY <2>1
  <2> HIDE DEF copy
  <2>4. /\ request[r].pc = "new" /\ request'[r].pc = "insert" /\ request'[r].email = e
        /\ request'[r].copy = copy
        /\ \A s \in Requests : s # r => request'[s] = request[s]
    BY <1>0, <2>2, <2>3, RequestsFollow DEF RequestStates
  <2>5. /\ crossed' = IF Busy(e) THEN crossed \cup {e} ELSE crossed
        /\ ~row[e].exists /\ row' = row /\ rows' = rows /\ pii' = pii
    BY <1>1, <2>3 DEF Register, Begins
  <2>6. e \notin crossed' => \A s \in Requests : s # r /\ Open(s) => request[s].email # e
    BY <2>5 DEF Busy, Open
  <2>7. Knows(r, e)' /\ Open(r)'
    BY <2>2, <2>4, <2>5 DEF Knows, At, Open
  <2> QED BY <1>0, <2>4, <2>5, <2>6, <2>7, StepOfUserKeepsInv
<1>2. ASSUME NEW r \in Requests, NEW e \in Emails, Load(r, e) PROVE AccountsInv'
  <2>1. /\ request[r].pc = "new" /\ request'[r].pc = "loaded" /\ request'[r].email = e
        /\ request'[r].copy = row[e]
        /\ \A s \in Requests : s # r => request'[s] = request[s]
    BY <1>0, <1>2, <1>t, RequestsFollow DEF Load, RequestStates
  <2>2. /\ crossed' = IF Busy(e) THEN crossed \cup {e} ELSE crossed
        /\ row[e].exists /\ row' = row /\ rows' = rows /\ pii' = pii
    BY <1>2 DEF Load, Begins
  <2>3. e \notin crossed' => \A s \in Requests : s # r /\ Open(s) => request[s].email # e
    BY <2>2 DEF Busy, Open
  <2>4. e \notin crossed' => InStep(e)
    BY <1>0, <2>2 DEF AtRest
  <2>5. e \notin crossed' => Knows(r, e)'
    BY <2>1, <2>2, <2>4 DEF Knows, At, InStep
  <2>6. Open(r)'
    BY <2>1 DEF Open
  <2> QED BY <1>0, <2>1, <2>2, <2>3, <2>5, <2>6, StepOfUserKeepsInv
<1>3. ASSUME NEW r \in Requests, Insert(r) PROVE AccountsInv'
  <2> DEFINE e == request[r].email
             copy == request[r].copy
  <2>1. At(r, "insert") /\ Open(r) /\ request[r].pc # "new"
    BY <1>3 DEF Insert, At, Open
  <2>2. e \in Emails /\ copy \in UserRow
    BY <1>e, <2>1
  <2>3. rows' = rows /\ pii' = pii /\ crossed' = crossed
    BY <1>3 DEF Insert
  <2>4. e \notin crossed => ~row[e].exists /\ copy.exists
    BY <1>k, <2>1 DEF Knows, At
  <2>5. e \notin crossed => \A s \in Requests : s # r /\ Open(s) => request[s].email # e
    BY <1>a, <2>1
  <2>6. CASE Ends(r) /\ row' = row
    <3>1. /\ request'[r].pc = "done" /\ request'[r].email = e
          /\ \A s \in Requests : s # r => request'[s] = request[s]
      BY <1>0, <2>1, <2>6, RequestsFollow
    <3>2. ~Open(r)'
      BY <3>1 DEF Open
    <3> HIDE DEF e, copy
    <3> QED BY <1>0, <2>1, <2>2, <2>3, <2>4, <2>5, <2>6, <3>1, <3>2, StepOfUserKeepsInv DEF e
  <2>7. CASE row' = [row EXCEPT ![e] = copy] /\ Saves(r, copy, Related)
    <3>1. /\ request'[r].pc = "signal" /\ request'[r].email = e
          /\ request'[r].copy = copy /\ request'[r].todo = Related
          /\ \A s \in Requests : s # r => request'[s] = request[s]
      BY <1>0, <2>1, <2>2, <2>7, RequestsFollow
    <3>2. Open(r)'
      BY <3>1 DEF Open
    <3> HIDE DEF e, copy
    <3>3. row'[e] = copy /\ \A f \in Emails : f # e => row'[f] = row[f]
      BY <1>t, <2>2, <2>7
    <3>4. rows[e] \cup Related = Related
      BY <1>t, <2>2
    <3>5. e \notin crossed => Knows(r, e)'
      BY <2>3, <2>4, <3>1, <3>3, <3>4 DEF Knows, At, Mirror, e
    <3> QED BY <1>0, <2>1, <2>2, <2>3, <2>5, <3>1, <3>2, <3>3, <3>5, StepOfUserKeepsInv DEF e
  <2> QED BY <1>3, <2>6, <2>7 DEF Insert
<1>4. ASSUME NEW r \in Requests, MakeRelated(r) PROVE AccountsInv'
  <2> DEFINE e == request[r].email
  <2>1. At(r, "signal") /\ Open(r) /\ request[r].pc # "new"
    BY <1>4 DEF MakeRelated, At, Open
  <2>2. e \in Emails /\ request[r] \in Handling
    BY <1>0, <1>e, <2>1, RequestsFollow
  <2>3. PICK x \in request[r].todo :
          /\ rows' = [rows EXCEPT ![e] = @ \cup {x}]
          /\ request' = [request EXCEPT ![r].todo = @ \ {x}]
    BY <1>4 DEF MakeRelated
  <2>4. row' = row /\ pii' = pii /\ crossed' = crossed
    BY <1>4 DEF MakeRelated
  <2>5. /\ request'[r].pc = "signal" /\ request'[r].email = e
        /\ request'[r].copy = request[r].copy /\ request'[r].todo = request[r].todo \ {x}
        /\ \A s \in Requests : s # r => request'[s] = request[s]
    <3>1. request \in [Requests -> [pc : {"new"}] \cup Handling]
      BY <1>0 DEF AccountsTypeOK
    <3> DEFINE value == [request[r] EXCEPT !.todo = @ \ {x}]
    <3>2. /\ value.pc = "signal" /\ value.email = e
          /\ value.copy = request[r].copy /\ value.todo = request[r].todo \ {x}
      BY <2>1, <2>2 DEF At, Handling
    <3>3. request' = [request EXCEPT ![r] = value]
      BY <2>3
    <3> HIDE DEF value
    <3> QED BY <3>1, <3>2, <3>3
  <2>6. e \notin crossed => \A s \in Requests : s # r /\ Open(s) => request[s].email # e
    BY <1>a, <2>1
  <2>7. /\ rows'[e] = rows[e] \cup {x}
        /\ \A f \in Emails : f # e => rows'[f] = rows[f]
    BY <1>t, <2>2, <2>3
  <2>8. e \notin crossed =>
          /\ row[e].exists /\ rows[e] \cup request[r].todo = Related
          /\ Mirror(request[r].copy) = Mirror(row[e])
    BY <1>k, <2>1 DEF Knows, At
  <2>9. e \notin crossed => Knows(r, e)'
    <3>1. (rows[e] \cup {x}) \cup (request[r].todo \ {x}) = rows[e] \cup request[r].todo
      BY <2>3
    <3> QED BY <2>4, <2>5, <2>7, <2>8, <3>1 DEF Knows, At
  <2>10. Open(r)'
    BY <2>5 DEF Open
  <2> HIDE DEF e
  <2> QED BY <1>0, <2>1, <2>2, <2>4, <2>5, <2>6, <2>7, <2>9, <2>10, StepOfUserKeepsInv DEF e
<1>5. ASSUME NEW r \in Requests, WriteMirror(r) PROVE AccountsInv'
  <2> DEFINE e == request[r].email
  <2>1. At(r, "signal") /\ Open(r) /\ request[r].pc # "new" /\ request[r].todo = {}
    BY <1>5 DEF WriteMirror, At, Open
  <2>2. e \in Emails
    BY <1>e, <2>1
  <2>3. /\ row' = row /\ rows' = rows /\ crossed' = crossed
        /\ pii' = [pii EXCEPT ![e] = Mirror(request[r].copy)]
    BY <1>5 DEF WriteMirror, Mirrored
  <2>4. /\ request'[r].pc = "done" /\ request'[r].email = e
        /\ \A s \in Requests : s # r => request'[s] = request[s]
    BY <1>0, <1>5, <2>1, RequestsFollow DEF WriteMirror
  <2>5. e \notin crossed => \A s \in Requests : s # r /\ Open(s) => request[s].email # e
    BY <1>a, <2>1
  <2>6. /\ pii'[e] = Mirror(request[r].copy)
        /\ \A f \in Emails : f # e => pii'[f] = pii[f]
    BY <1>t, <2>2, <2>3
  <2>7. e \notin crossed => InStep(e)'
    BY <1>k, <2>1, <2>3, <2>4, <2>6 DEF Knows, InStep
  <2>8. ~Open(r)'
    BY <2>4 DEF Open
  <2> HIDE DEF e
  <2> QED BY <1>0, <2>1, <2>2, <2>3, <2>4, <2>5, <2>6, <2>7, <2>8, StepOfUserKeepsInv DEF e
<1>6. ASSUME NEW r \in Requests, Patch(r) PROVE AccountsInv'
  <2> DEFINE e == request[r].email
  <2>1. At(r, "loaded") /\ Open(r) /\ request[r].pc # "new"
    BY <1>6 DEF Patch, At, Open
  <2>2. e \in Emails /\ request[r].copy \in UserRow
    BY <1>e, <2>1
  <2>3. PICK n \in Values, b \in Values :
          LET copy == [request[r].copy EXCEPT !.name = n, !.birth = b]
          IN row' = [row EXCEPT ![request[r].email] = copy] /\ Saves(r, copy, {})
    BY <1>6 DEF Patch
  <2> DEFINE copy == [request[r].copy EXCEPT !.name = n, !.birth = b]
  <2>4. copy \in UserRow /\ copy.exists = request[r].copy.exists
    BY <2>2 DEF UserRow, Said
  <2>5. row' = [row EXCEPT ![e] = copy] /\ Saves(r, copy, {})
    BY <2>3
  <2>6. rows' = rows /\ pii' = pii /\ crossed' = crossed
    BY <1>6 DEF Patch
  <2> HIDE DEF copy
  <2>7. /\ request'[r].pc = "signal" /\ request'[r].email = e
        /\ request'[r].copy = copy /\ request'[r].todo = {}
        /\ \A s \in Requests : s # r => request'[s] = request[s]
    BY <1>0, <2>1, <2>4, <2>5, RequestsFollow
  <2>8. e \notin crossed => \A s \in Requests : s # r /\ Open(s) => request[s].email # e
    BY <1>a, <2>1
  <2>9. e \notin crossed => request[r].copy = row[e] /\ row[e].exists /\ InStep(e)
    BY <1>k, <2>1 DEF Knows, At
  <2> HIDE DEF e
  <2>10. row'[e] = copy /\ \A f \in Emails : f # e => row'[f] = row[f]
    BY <1>t, <2>2, <2>5
  <2>11. e \notin crossed => Knows(r, e)'
    BY <2>4, <2>6, <2>7, <2>9, <2>10 DEF Knows, At, InStep, e
  <2>12. Open(r)'
    BY <2>7 DEF Open
  <2> QED BY <1>0, <2>1, <2>2, <2>6, <2>7, <2>8, <2>10, <2>11, <2>12, StepOfUserKeepsInv DEF e
<1>7. ASSUME NEW r \in Requests,
             FindMap(r) \/ CreateMap(r) \/ UpdateMap(r) \/ ReloadUser(r)
      PROVE  AccountsInv'
  <2> DEFINE e == request[r].email
  <2>1. /\ request[r].pc \in {"loaded", "create", "update", "reload"}
        /\ Open(r) /\ request[r].pc # "new"
    BY <1>7 DEF FindMap, CreateMap, UpdateMap, ReloadUser, At, Open
  <2>2. e \in Emails
    BY <1>e, <2>1
  <2>3. row' = row /\ rows' = rows /\ pii' = pii /\ crossed' = crossed
    BY <1>7 DEF FindMap, CreateMap, UpdateMap, ReloadUser
  <2>4. e \notin crossed => \A s \in Requests : s # r /\ Open(s) => request[s].email # e
    BY <1>a, <2>1
  <2>5. e \notin crossed => request[r].copy = row[e] /\ row[e].exists /\ InStep(e)
    BY <1>k, <2>1 DEF Knows, At
  <2>6. CASE Ends(r)
    <3>1. /\ request'[r].pc = "done" /\ request'[r].email = e
          /\ \A s \in Requests : s # r => request'[s] = request[s]
      BY <1>0, <2>1, <2>6, RequestsFollow
    <3>2. ~Open(r)'
      BY <3>1 DEF Open
    <3>3. e \notin crossed => InStep(e)'
      BY <2>3, <2>5, <3>1 DEF InStep
    <3> HIDE DEF e
    <3> QED BY <1>0, <2>1, <2>2, <2>3, <2>4, <3>1, <3>2, <3>3, StepOfUserKeepsInv DEF e
  <2>7. CASE FindMap(r) \/ (\E pc \in {"sync", "reload"} : WritesMap(r, pc)) \/ ReloadUser(r)
    <3>1. /\ request'[r].pc \in {"create", "update", "reload", "sync"}
          /\ request'[r].email = e /\ request'[r].copy \in {request[r].copy, row[e]}
          /\ \A s \in Requests : s # r => request'[s] = request[s]
      BY <1>0, <2>1, <2>7, MapStepsFollow
    <3>2. Open(r)'
      BY <3>1 DEF Open
    <3>3. e \notin crossed => Knows(r, e)'
      BY <2>3, <2>5, <3>1 DEF Knows, At, InStep
    <3> HIDE DEF e
    <3> QED BY <1>0, <2>1, <2>2, <2>3, <2>4, <3>1, <3>2, <3>3, StepOfUserKeepsInv DEF e
  <2> QED BY <1>7, <2>6, <2>7 DEF CreateMap, UpdateMap
<1>8. ASSUME NEW r \in Requests, SyncUser(r) PROVE AccountsInv'
  <2> DEFINE e == request[r].email
             old == request[r].copy
             copy == [old EXCEPT !.name = Given(request[r].profile.name, @),
                                 !.birth = Given(request[r].profile.birth, @)]
  <2>1. At(r, "sync") /\ Open(r) /\ request[r].pc # "new"
    BY <1>8 DEF SyncUser, At, Open
  <2>2. e \in Emails /\ old \in UserRow
    BY <1>e, <2>1
  <2>3. rows' = rows /\ pii' = pii /\ crossed' = crossed
    BY <1>8 DEF SyncUser
  <2>4. e \notin crossed => old = row[e] /\ row[e].exists /\ InStep(e)
    BY <1>k, <2>1 DEF Knows, At
  <2>5. e \notin crossed => \A s \in Requests : s # r /\ Open(s) => request[s].email # e
    BY <1>a, <2>1
  <2>6. CASE Ends(r) /\ row' = row
    <3>1. /\ request'[r].pc = "done" /\ request'[r].email = e
          /\ \A s \in Requests : s # r => request'[s] = request[s]
      BY <1>0, <2>1, <2>6, RequestsFollow
    <3>2. ~Open(r)'
      BY <3>1 DEF Open
    <3>3. e \notin crossed => InStep(e)'
      BY <2>3, <2>4, <2>6, <3>1 DEF InStep
    <3> HIDE DEF e, old, copy
    <3> QED BY <1>0, <2>1, <2>2, <2>3, <2>5, <2>6, <3>1, <3>2, <3>3, StepOfUserKeepsInv DEF e
  <2>7. CASE /\ row' = [row EXCEPT ![e] = [@ EXCEPT
                            !.name = IF copy.name # old.name THEN copy.name ELSE row[e].name,
                            !.birth = IF copy.birth # old.birth THEN copy.birth
                                      ELSE row[e].birth]]
             /\ Saves(r, copy, {})
    <3>1. copy \in UserRow
      <4>1. request[r].profile \in Profile
        BY <1>0, <2>1, RequestsFollow DEF Handling
      <4> QED BY <2>2, <4>1 DEF UserRow, Profile, Given
    <3> HIDE DEF copy, old, e
    <3>2. /\ request'[r].pc = "signal" /\ request'[r].email = e
          /\ request'[r].copy = copy /\ request'[r].todo = {}
          /\ \A s \in Requests : s # r => request'[s] = request[s]
      BY <1>0, <2>1, <2>7, <3>1, RequestsFollow DEF e
    <3>3. Open(r)'
      BY <3>2 DEF Open
    <3>4. \A f \in Emails : f # e => row'[f] = row[f]
      BY <1>t, <2>2, <2>7
    <3> DEFINE value == [row[e] EXCEPT
                           !.name = IF copy.name # old.name THEN copy.name ELSE row[e].name,
                           !.birth = IF copy.birth # old.birth THEN copy.birth
                                     ELSE row[e].birth]
    <3>8. row'[e] = value
      BY <1>t, <2>2, <2>7
    <3>5. /\ row'[e].exists = row[e].exists
          /\ row'[e].name = IF copy.name # old.name THEN copy.name ELSE row[e].name
          /\ row'[e].birth = IF copy.birth # old.birth THEN copy.birth ELSE row[e].birth
      <4>1. row[e] \in UserRow
        BY <1>t, <2>2
      <4> QED BY <3>8, <4>1 DEF UserRow
    <3>6. e \notin crossed =>
            row'[e].exists /\ Mirror(copy) = Mirror(row'[e]) /\ rows[e] = Related
      BY <2>4, <3>5 DEF Mirror, InStep
    <3>7. e \notin crossed => Knows(r, e)'
      BY <2>3, <3>2, <3>6 DEF Knows, At, Mirror, e
    <3> QED BY <1>0, <2>1, <2>2, <2>3, <2>5, <3>2, <3>3, <3>4, <3>7, StepOfUserKeepsInv DEF e
  <2> QED BY <1>8, <2>6, <2>7 DEF SyncUser
<1>9. ASSUME NEW r \in Requests, Die(r) PROVE AccountsInv'
  <2> DEFINE e == request[r].email
  <2>1. Open(r) /\ request[r].pc # "new"
    BY <1>9 DEF Die, Open
  <2>2. e \in Emails
    BY <1>e, <2>1
  <2>3. row' = row /\ rows' = rows /\ pii' = pii /\ crossed' = crossed \cup {e}
    BY <1>9 DEF Die
  <2>4. /\ request'[r].pc = "done" /\ request'[r].email = e
        /\ \A s \in Requests : s # r => request'[s] = request[s]
    BY <1>0, <1>9, <2>1, RequestsFollow DEF Die
  <2>5. ~Open(r)'
    BY <2>4 DEF Open
  <2> HIDE DEF e
  <2> QED BY <1>0, <2>1, <2>2, <2>3, <2>4, <2>5, StepOfUserKeepsInv DEF e
<1>10. CASE UNCHANGED accountVars
  BY <1>0, <1>10 DEF accountVars, AccountsInv, OneAtATime, CopyIsRow, AtRest, Open, Knows, At,
       Busy, InStep
<1> QED
  BY <1>1, <1>2, <1>3, <1>4, <1>5, <1>6, <1>7, <1>8, <1>9, <1>10 DEF AccountsNext

\* A user whose requests came one after the other and ran to their end has all related
\* rows and a UserPII that agrees with the row (apps/users/models.py, signals.py and
\* serializers.py): only overlap, or a death between statements, lets them drift apart.
THEOREM RowsStayTogether == AccountsSpec => []DriftOnlyByOverlap
<1>1. AccountsInv => DriftOnlyByOverlap
  BY DEF AccountsInv, AtRest, InStep, DriftOnlyByOverlap
<1> QED BY <1>1, InitAccountsInv, NextAccountsInv, PTL DEF AccountsSpec

-----------------------------------------------------------------------------
(***************************************************************************)
(* Audit: times are apart, and an event finds the newest one before it     *)
(***************************************************************************)
AuditSpec == AuditInit /\ [][AuditNext]_auditVars

AuditTypeOK ==
    /\ log \in SUBSET AuditEvents
    /\ audit \in [AuditEvents -> {"new", "save", "lock", "insert", "done"}]
    /\ created \in [AuditEvents -> Nat]
    /\ before \in [AuditEvents -> AuditEvents \cup {Nothing}]
    /\ together \in SUBSET SUBSET AuditEvents

\* Created: the events that were given a time, and the times are 1, 2, ...
Timed == {e \in AuditEvents : created[e] > 0}

TimesAreApart ==
    /\ \A e \in AuditEvents : audit[e] = "new" <=> created[e] = 0
    /\ \A e \in AuditEvents : created[e] <= Cardinality(Timed)
    /\ \A e, f \in Timed : e # f => created[e] # created[f]

\* An event was done when a later one was instantiated, or they are on record.
DoneOrTogether ==
    \A e, f \in Timed :
        created[e] < created[f] /\ {e, f} \notin together => audit[e] = "done"

\* Chosen: the events that have looked for the newest one.
Chosen == {e \in AuditEvents : audit[e] \in {"lock", "insert"}} \cup log

\* What an event found, as far as those go that did not overlap it.
FoundTheNewest ==
    /\ \A e \in log : audit[e] = "done"
    /\ \A e \in AuditEvents : audit[e] \in {"new", "save"} => before[e] = Nothing
    /\ \A f \in Chosen :
          /\ before[f] # Nothing =>
                /\ before[f] \in log /\ before[f] # f
                /\ created[f] < created[before[f]] => {f, before[f]} \in together
          /\ \A e \in log :
                e # f /\ created[e] < created[f] /\ {e, f} \notin together =>
                    before[f] # Nothing /\ created[e] <= created[before[f]]

AuditInv == AuditTypeOK /\ TimesAreApart /\ DoneOrTogether /\ FoundTheNewest

LEMMA InitAuditInv == AuditInit => AuditInv
<1> SUFFICES ASSUME AuditInit PROVE AuditInv
  OBVIOUS
<1>1. Timed = {} /\ Chosen = {} /\ log = {}
  BY DEF AuditInit, Timed, Chosen
<1>2. AuditTypeOK
  BY DEF AuditInit, AuditTypeOK
<1>3. \A e \in AuditEvents : before[e] = Nothing
  BY DEF AuditInit
<1>4. TimesAreApart
  <2>1. Cardinality(Timed) = 0
    BY <1>1, FS_EmptySet
  <2> QED BY <1>1, <2>1 DEF AuditInit, TimesAreApart
<1> QED BY <1>1, <1>2, <1>3, <1>4 DEF AuditInv, DoneOrTogether, FoundTheNewest

LEMMA InstantiateKeepsInv ==
    ASSUME AuditInv, NEW e \in AuditEvents, Instantiate(e)
    PROVE  AuditInv'
<1> DEFINE now == 1 + Cardinality(Timed)
<1>0. AuditTypeOK /\ TimesAreApart /\ DoneOrTogether /\ FoundTheNewest
  BY DEF AuditInv
<1>1. IsFiniteSet(Timed) /\ Cardinality(Timed) \in Nat /\ now \in Nat /\ now > 0
  BY AuditAssumption, FS_Subset, FS_CardinalityType DEF Timed
<1>2. /\ audit[e] = "new" /\ audit' = [audit EXCEPT ![e] = "save"]
      /\ created' = [created EXCEPT ![e] = now]
      /\ together' = together \cup {{e, f} : f \in Recording}
      /\ UNCHANGED <<log, before>>
  BY DEF Instantiate, Continue, Timed
<1>3. e \notin Timed /\ e \notin log /\ created[e] = 0
  BY <1>0, <1>2 DEF TimesAreApart, Timed, FoundTheNewest
<1>4. Timed' = Timed \cup {e}
  BY <1>0, <1>1, <1>2 DEF Timed, AuditTypeOK
<1>5. Cardinality(Timed') = now
  BY <1>1, <1>3, <1>4, FS_AddElement
<1>6. /\ created'[e] = now /\ audit'[e] = "save"
      /\ \A f \in AuditEvents : f # e => created'[f] = created[f] /\ audit'[f] = audit[f]
  BY <1>0, <1>2 DEF AuditTypeOK
<1>7. \A f \in AuditEvents :
          created[f] \in Nat /\ created[f] <= Cardinality(Timed) /\ created[f] < now
  BY <1>0, <1>1 DEF AuditTypeOK, TimesAreApart
<1>8. AuditTypeOK'
  BY <1>0, <1>1, <1>2 DEF AuditTypeOK, Recording
<1>9. TimesAreApart'
  <2>1. \A f \in AuditEvents : audit'[f] = "new" <=> created'[f] = 0
    BY <1>0, <1>1, <1>6 DEF TimesAreApart
  <2>2. \A f \in AuditEvents : created'[f] <= Cardinality(Timed')
    BY <1>1, <1>5, <1>6, <1>7
  <2>3. \A f, g \in Timed' : f # g => created'[f] # created'[g]
    BY <1>0, <1>1, <1>4, <1>6, <1>7 DEF TimesAreApart, Timed
  <2> QED BY <2>1, <2>2, <2>3 DEF TimesAreApart
<1>10. DoneOrTogether'
  <2> SUFFICES ASSUME NEW f \in Timed', NEW g \in Timed', created'[f] < created'[g],
                      {f, g} \notin together'
               PROVE  audit'[f] = "done"
    BY DEF DoneOrTogether
  <2>0. f \in AuditEvents /\ g \in AuditEvents
    BY DEF Timed
  <2>1. f # e
    BY <2>0, <1>1, <1>6, <1>7
  <2>2. CASE g = e
    <3>1. f \notin Recording
      BY <1>2, <2>2
    <3>2. audit[f] # "new"
      BY <1>0, <1>4, <2>1 DEF TimesAreApart, Timed
    <3> QED BY <1>6, <2>0, <2>1, <3>1, <3>2 DEF Recording
  <2>3. CASE g # e
    BY <1>0, <1>2, <1>4, <1>6, <2>0, <2>1, <2>3 DEF DoneOrTogether
  <2> QED BY <2>2, <2>3
<1>11. FoundTheNewest'
  <2>1. Chosen' = Chosen /\ e \notin Chosen
    BY <1>2, <1>3, <1>6 DEF Chosen
  <2>2. \A f \in Chosen \cup log : f \in AuditEvents /\ f # e
    BY <1>0, <1>3, <2>1 DEF Chosen, AuditTypeOK
  <2>3. together \subseteq together'
    BY <1>2
  <2>4. \A f \in log : audit'[f] = "done"
    BY <1>0, <1>6, <2>2 DEF FoundTheNewest
  <2>5. ASSUME NEW f \in Chosen
        PROVE  /\ before[f] # Nothing =>
                    /\ before[f] \in log /\ before[f] # f
                    /\ created'[f] < created'[before[f]] => {f, before[f]} \in together'
               /\ \A g \in log :
                    g # f /\ created'[g] < created'[f] /\ {g, f} \notin together' =>
                        before[f] # Nothing /\ created'[g] <= created'[before[f]]
    <3>1. before[f] # Nothing => before[f] \in log /\ before[f] # f
      BY <1>0 DEF FoundTheNewest
    <3>2. created'[f] = created[f] /\ \A g \in log : created'[g] = created[g]
      BY <1>6, <2>2
    <3> QED BY <1>0, <2>3, <3>1, <3>2 DEF FoundTheNewest
  <2>6. \A f \in AuditEvents : audit'[f] \in {"new", "save"} => before[f] = Nothing
    BY <1>0, <1>2, <1>6 DEF FoundTheNewest
  <2> QED BY <1>2, <2>1, <2>4, <2>5, <2>6 DEF FoundTheNewest
<1> QED BY <1>8, <1>9, <1>10, <1>11 DEF AuditInv

LEMMA SelectKeepsInv ==
    ASSUME AuditInv, NEW e \in AuditEvents, SelectNewest(e)
    PROVE  AuditInv'
<1>0. AuditTypeOK /\ TimesAreApart /\ DoneOrTogether /\ FoundTheNewest
  BY DEF AuditInv
<1>1. /\ audit[e] = "save" /\ UNCHANGED <<log, created, together>>
      /\ \A f \in AuditEvents : f # e => audit'[f] = audit[f] /\ before'[f] = before[f]
      /\ audit'[e] \in {"lock", "insert"}
      /\ \/ log = {} /\ before' = before
         \/ before'[e] \in log /\ \A f \in log : created[f] <= created[before'[e]]
  BY <1>0 DEF SelectNewest, Newest, Continue, AuditTypeOK
<1>2. AuditTypeOK'
  BY <1>0 DEF SelectNewest, Newest, Continue, AuditTypeOK
<1>3. Timed' = Timed /\ Chosen' = Chosen \cup {e} /\ e \notin log
  BY <1>0, <1>1 DEF Timed, Chosen, FoundTheNewest
<1>4. TimesAreApart'
  BY <1>0, <1>1, <1>3 DEF TimesAreApart
<1>5. DoneOrTogether'
  BY <1>0, <1>1, <1>3 DEF DoneOrTogether, Timed
<1>6. FoundTheNewest'
  <2>1. \A f \in log : audit'[f] = "done"
    BY <1>0, <1>1, <1>3 DEF FoundTheNewest, AuditTypeOK
  <2>0. \A f \in AuditEvents : audit'[f] \in {"new", "save"} => before'[f] = Nothing
    BY <1>0, <1>1 DEF FoundTheNewest
  <2>2. ASSUME NEW f \in Chosen, f # e
        PROVE  /\ before'[f] # Nothing =>
                    /\ before'[f] \in log /\ before'[f] # f
                    /\ created[f] < created[before'[f]] => {f, before'[f]} \in together
               /\ \A g \in log :
                    g # f /\ created[g] < created[f] /\ {g, f} \notin together =>
                        before'[f] # Nothing /\ created[g] <= created[before'[f]]
    <3>1. before'[f] = before[f]
      BY <1>0, <1>1, <2>2 DEF Chosen, AuditTypeOK
    <3> QED BY <1>0, <3>1 DEF FoundTheNewest
  <2>3. CASE log = {}
    <3>1. before'[e] = Nothing
      BY <1>0, <1>1, <2>3 DEF FoundTheNewest
    <3>2. Chosen' \subseteq AuditEvents
      BY <1>2 DEF Chosen, AuditTypeOK
    <3> QED BY <1>1, <1>3, <2>0, <2>1, <2>2, <2>3, <3>1 DEF FoundTheNewest
  <2>4. CASE log # {}
    <3>1. before'[e] \in log /\ before'[e] # e /\ before'[e] # Nothing
      BY <1>0, <1>1, <1>3, <2>4, AuditAssumption DEF AuditTypeOK
    <3>2. created[e] < created[before'[e]] => {e, before'[e]} \in together
      <4>1. created[e] > 0 /\ created[before'[e]] > 0
        BY <1>0, <1>1, <3>1 DEF TimesAreApart, AuditTypeOK, FoundTheNewest
      <4>2. e \in Timed /\ before'[e] \in Timed
        BY <1>0, <3>1, <4>1 DEF Timed, AuditTypeOK
      <4> QED BY <1>0, <1>1, <4>2 DEF DoneOrTogether
    <3>3. \A g \in log : created[g] <= created[before'[e]]
      BY <1>1, <2>4
    <3> QED BY <1>1, <1>3, <2>0, <2>1, <2>2, <3>1, <3>2, <3>3 DEF FoundTheNewest
  <2> QED BY <2>3, <2>4
<1> QED BY <1>2, <1>4, <1>5, <1>6 DEF AuditInv

LEMMA NextAuditInv == AuditInv /\ [AuditNext]_auditVars => AuditInv'
<1> SUFFICES ASSUME AuditInv, [AuditNext]_auditVars PROVE AuditInv'
  OBVIOUS
<1>0. AuditTypeOK /\ TimesAreApart /\ DoneOrTogether /\ FoundTheNewest
  BY DEF AuditInv
<1>1. ASSUME NEW e \in AuditEvents, Instantiate(e) \/ SelectNewest(e) PROVE AuditInv'
  BY <1>1, InstantiateKeepsInv, SelectKeepsInv
<1>2. ASSUME UNCHANGED <<created, before, together>>, AuditTypeOK',
             \A f \in AuditEvents : /\ audit'[f] = "new" <=> audit[f] = "new"
                                    /\ audit'[f] = "save" => audit[f] = "save"
                                    /\ audit[f] = "done" => audit'[f] = "done",
             log \subseteq log', log' \subseteq Chosen, Chosen' \subseteq Chosen,
             \A f \in log' : audit'[f] = "done",
             \A f \in log' \ log, g \in Chosen : created[f] < created[g] /\ f # g
                 => {f, g} \in together
      PROVE  AuditInv'
  <2>1. Timed' = Timed
    BY <1>2 DEF Timed
  <2>2. TimesAreApart'
    BY <1>0, <1>2, <2>1 DEF TimesAreApart
  <2>3. DoneOrTogether'
    BY <1>0, <1>2, <2>1 DEF DoneOrTogether, Timed
  <2>4. FoundTheNewest'
    BY <1>0, <1>2 DEF FoundTheNewest
  <2> QED BY <1>2, <2>2, <2>3, <2>4 DEF AuditInv
<1>3. ASSUME NEW e \in AuditEvents, LockRow(e) PROVE AuditInv'
  <2>1. AuditTypeOK'
    BY <1>0, <1>3 DEF LockRow, Continue, AuditTypeOK
  <2>2. \A f \in AuditEvents : /\ audit'[f] = "new" <=> audit[f] = "new"
                               /\ audit'[f] = "save" => audit[f] = "save"
                               /\ audit[f] = "done" => audit'[f] = "done"
    BY <1>0, <1>3 DEF LockRow, Continue, AuditTypeOK
  <2>3. Chosen' \subseteq Chosen /\ log' = log /\ UNCHANGED <<created, before, together>>
    BY <1>0, <1>3 DEF LockRow, Continue, AuditTypeOK, Chosen
  <2>4. \A f \in log : audit'[f] = "done" /\ f \in Chosen
    BY <1>0, <2>2 DEF FoundTheNewest, AuditTypeOK, Chosen
  <2> QED BY <1>2, <2>1, <2>2, <2>3, <2>4
<1>4. ASSUME NEW e \in AuditEvents, InsertEvent(e) PROVE AuditInv'
  <2>1. AuditTypeOK'
    BY <1>0, <1>4 DEF InsertEvent, Continue, AuditTypeOK
  <2>2. \A f \in AuditEvents : /\ audit'[f] = "new" <=> audit[f] = "new"
                               /\ audit'[f] = "save" => audit[f] = "save"
                               /\ audit[f] = "done" => audit'[f] = "done"
    BY <1>0, <1>4 DEF InsertEvent, Continue, AuditTypeOK
  <2>3. /\ Chosen' \subseteq Chosen /\ log' = log \cup {e} /\ e \in Chosen /\ audit[e] = "insert"
        /\ audit'[e] = "done" /\ UNCHANGED <<created, before, together>>
    BY <1>0, <1>4 DEF InsertEvent, Continue, AuditTypeOK, Chosen
  <2>4. \A f \in log : audit'[f] = "done" /\ f \in Chosen
    BY <1>0, <2>2 DEF FoundTheNewest, AuditTypeOK, Chosen
  <2>5. ASSUME NEW g \in Chosen, created[e] < created[g] PROVE {e, g} \in together
    <3>1. e \in Timed /\ g \in Timed
      BY <1>0, <2>3 DEF TimesAreApart, Timed, Chosen, AuditTypeOK, FoundTheNewest
    <3> QED BY <1>0, <2>3, <2>5, <3>1 DEF DoneOrTogether
  <2> QED BY <1>2, <2>1, <2>2, <2>3, <2>4, <2>5
<1>5. ASSUME NEW e \in AuditEvents, AbortSave(e) PROVE AuditInv'
  <2>1. AuditTypeOK'
    BY <1>0, <1>5 DEF AbortSave, Continue, AuditTypeOK
  <2>2. \A f \in AuditEvents : /\ audit'[f] = "new" <=> audit[f] = "new"
                               /\ audit'[f] = "save" => audit[f] = "save"
                               /\ audit[f] = "done" => audit'[f] = "done"
    BY <1>0, <1>5 DEF AbortSave, Continue, AuditTypeOK, Recording
  <2>3. Chosen' \subseteq Chosen /\ log' = log /\ UNCHANGED <<created, before, together>>
    BY <1>0, <1>5 DEF AbortSave, Continue, AuditTypeOK, Chosen
  <2>4. \A f \in log : audit'[f] = "done" /\ f \in Chosen
    BY <1>0, <2>2 DEF FoundTheNewest, AuditTypeOK, Chosen
  <2> QED BY <1>2, <2>1, <2>2, <2>3, <2>4
<1>6. CASE UNCHANGED auditVars
  BY <1>0, <1>6 DEF auditVars, AuditInv, AuditTypeOK, TimesAreApart, DoneOrTogether,
     FoundTheNewest, Timed, Chosen
<1> QED
  BY <1>1, <1>3, <1>4, <1>5, <1>6 DEF AuditNext

\* Two events name the same one before them only if they overlapped, or one of them
\* overlapped the event they name and is the older of the two: the lock waits for a row
\* that need not be the newest any more.
THEOREM ChainForksRarely == AuditSpec => []ChainForksOnlyByOverlap
<1>1. AuditInv => ChainForksOnlyByOverlap
  <2> SUFFICES ASSUME AuditInv, NEW e \in log, NEW f \in log, e # f, before[e] = before[f],
                      {e, f} \notin together, created[e] < created[f]
               PROVE  {e, before[e]} \in together /\ created[e] < created[before[e]]
    <3>1. ASSUME AuditInv, NEW e \in log, NEW f \in log, e # f
          PROVE  created[e] < created[f] \/ created[f] < created[e]
      <4>1. e \in Timed /\ f \in Timed
        BY <3>1 DEF AuditInv, AuditTypeOK, TimesAreApart, FoundTheNewest, Timed
      <4> QED BY <3>1, <4>1 DEF AuditInv, AuditTypeOK, TimesAreApart, Timed
    <3> QED BY <3>1 DEF ChainForksOnlyByOverlap, Overlapped
  <2>1. e \in Chosen /\ f \in Chosen
    BY DEF Chosen
  <2>2. before[f] # Nothing /\ created[e] <= created[before[f]]
    BY <2>1 DEF AuditInv, FoundTheNewest
  <2>3. before[e] \in log /\ before[e] # e
    BY <2>1, <2>2 DEF AuditInv, FoundTheNewest
  <2>4. created[e] < created[before[e]]
    <3>1. e \in Timed /\ before[e] \in Timed
      BY <2>3 DEF AuditInv, AuditTypeOK, TimesAreApart, FoundTheNewest, Timed
    <3> QED BY <2>2, <2>3, <3>1 DEF AuditInv, AuditTypeOK, TimesAreApart, Timed
  <2> QED BY <2>1, <2>2, <2>3, <2>4 DEF AuditInv, FoundTheNewest
<1> QED
  BY <1>1, InitAuditInv, NextAuditInv, PTL DEF AuditSpec

-----------------------------------------------------------------------------
(***************************************************************************)
(* Likes: the stored count, the likes, and what is still to be counted     *)
(***************************************************************************)
LikesSpec == LikesInit /\ [][LikesNext]_likesVars

TapStates == {"like", "count", "unlike", "discount", "comment", "delete", "edit", "done"}
CountValues == [likes : Int, comments : Int]

LikesTypeOK ==
    /\ likes \in SUBSET Likers
    /\ counts \in CountValues
    /\ tap \in [Taps -> [pc : {"new"}] \cup [pc : TapStates, liker : Likers, copy : CountValues]]
    /\ spoilt \in BOOLEAN

AtStage(pc) == {t \in Taps : TapAt(t, pc)}

\* Every like that is not counted yet is there, and is another user's.
UncountedAreThere ==
    \A t, u \in AtStage("count") :
        tap[t].liker \in likes /\ (t # u => tap[t].liker # tap[u].liker)

LikesInv == LikesTypeOK /\ (~spoilt => UncountedAreThere /\ LikesAreCounted)

\* How a set of requests and its size change when one of them goes on.
LEMMA SizesFollow ==
    ASSUME LikesTypeOK, NEW t \in Taps, NEW pc
    PROVE  /\ Cardinality(likes) \in Nat
           /\ Uncounted(pc) \in Nat
           /\ \A S \in SUBSET Taps :
                 /\ t \notin S => Cardinality(S \cup {t}) = Cardinality(S) + 1
                 /\ t \in S => Cardinality(S \ {t}) = Cardinality(S) - 1
           /\ \A l \in Likers :
                 /\ l \notin likes => Cardinality(likes \cup {l}) = Cardinality(likes) + 1
                 /\ l \in likes => Cardinality(likes \ {l}) = Cardinality(likes) - 1
<1>1. IsFiniteSet(likes) /\ \A S \in SUBSET Taps : IsFiniteSet(S)
  BY LikesAssumption, FS_Subset DEF LikesTypeOK
<1>2. Uncounted(pc) \in Nat
  BY <1>1, FS_CardinalityType DEF Uncounted
<1> QED BY <1>1, <1>2, FS_CardinalityType, FS_AddElement, FS_RemoveElement

\* Whoever is at work on a like that is taken out of the count leaves the count positive.
LEMMA CountIsPositive ==
    ASSUME LikesTypeOK, UncountedAreThere, LikesAreCounted, ~spoilt,
           NEW t \in AtStage("discount")
    PROVE  counts.likes > 0
<1>1. /\ IsFiniteSet(likes) /\ \A S \in SUBSET Taps : IsFiniteSet(S)
      /\ AtStage("discount") \in SUBSET Taps
  BY LikesAssumption, FS_Subset DEF LikesTypeOK, AtStage
<1>2. Cardinality(AtStage("discount")) \in Nat /\ Cardinality(AtStage("discount")) # 0
  BY <1>1, FS_CardinalityType, FS_EmptySet
<1>3. Cardinality(AtStage("count")) <= Cardinality(likes)
  <2> DEFINE f == [u \in AtStage("count") |-> tap[u].liker]
  <2>1. f \in Injection(AtStage("count"), likes)
    BY DEF UncountedAreThere, Injection, IsInjective
  <2> QED BY <1>1, <2>1, FS_Injection
<1>4. Cardinality(AtStage("count")) \in Nat /\ Cardinality(likes) \in Nat
  BY <1>1, FS_CardinalityType DEF AtStage
<1>5. counts.likes + Cardinality(AtStage("count")) - Cardinality(AtStage("discount"))
        = Cardinality(likes)
  BY DEF LikesAreCounted, Uncounted, AtStage
<1>6. counts.likes \in Int
  BY DEF LikesTypeOK, CountValues
<1> QED BY <1>2, <1>3, <1>4, <1>5, <1>6

LEMMA InitLikesInv == LikesInit => LikesInv
<1> SUFFICES ASSUME LikesInit PROVE LikesInv
  OBVIOUS
<1>1. LikesTypeOK
  <2>1. tap \in [Taps -> [pc : {"new"}] \cup [pc : TapStates, liker : Likers, copy : CountValues]]
    <3>1. [pc |-> "new"] \in [pc : {"new"}]
      OBVIOUS
    <3> QED BY <3>1 DEF LikesInit
  <2>2. counts \in CountValues
    BY DEF LikesInit, CountValues
  <2> QED BY <2>1, <2>2 DEF LikesInit, LikesTypeOK
<1>2. Uncounted("count") = 0 /\ Uncounted("discount") = 0 /\ Cardinality(likes) = 0
  <2>1. {t \in Taps : TapAt(t, "count")} = {} /\ {t \in Taps : TapAt(t, "discount")} = {}
    BY DEF LikesInit, TapAt
  <2> QED BY <2>1, FS_EmptySet DEF LikesInit, Uncounted
<1>3. UncountedAreThere
  BY DEF LikesInit, UncountedAreThere, AtStage, TapAt
<1> QED BY <1>1, <1>2, <1>3 DEF LikesInit, LikesInv, LikesAreCounted

LEMMA NextLikesTypeOK == LikesTypeOK /\ [LikesNext]_likesVars => LikesTypeOK'
<1> SUFFICES ASSUME LikesTypeOK, [LikesNext]_likesVars PROVE LikesTypeOK'
  OBVIOUS
<1> DEFINE Going == [pc : TapStates, liker : Likers, copy : CountValues]
<1>0. /\ likes \in SUBSET Likers /\ counts \in CountValues /\ spoilt \in BOOLEAN
      /\ tap \in [Taps -> [pc : {"new"}] \cup Going]
  BY DEF LikesTypeOK
<1>1. ASSUME NEW t \in Taps, NEW liker \in Likers,
             NEW kind \in {"like", "unlike", "comment", "delete", "edit"},
             LoadPost(t, liker, kind)
      PROVE  LikesTypeOK'
  <2>1. [pc |-> kind, liker |-> liker, copy |-> counts] \in Going
    BY <1>0 DEF TapStates
  <2> QED BY <1>0, <1>1, <2>1 DEF LoadPost, LikesTypeOK
<1>2. ASSUME NEW t \in Taps, tap[t].pc # "new", NEW pc \in TapStates, GoesOn(t, pc),
             likes' \in SUBSET Likers, counts' \in CountValues, spoilt' \in BOOLEAN
      PROVE  LikesTypeOK'
  <2>1. tap[t] \in Going
    BY <1>0, <1>2
  <2>2. [tap[t] EXCEPT !.pc = pc] \in Going
    BY <1>2, <2>1
  <2> QED BY <1>0, <1>2, <2>2 DEF GoesOn, LikesTypeOK
<1>3. ASSUME NEW t \in Taps, tap[t].pc # "new"
      PROVE  tap[t].liker \in Likers /\ tap[t].copy \in CountValues
  BY <1>0, <1>3
<1>4. ASSUME NEW t \in Taps, Like(t) PROVE LikesTypeOK'
  BY <1>0, <1>2, <1>3, <1>4 DEF Like, TapAt, TapStates
<1>5. ASSUME NEW t \in Taps, CountLike(t) \/ Comment(t) \/ DiscountLike(t) PROVE LikesTypeOK'
  <2>1. counts' \in CountValues
    BY <1>0, <1>5 DEF CountLike, Comment, DiscountLike, CountValues
  <2> QED BY <1>0, <1>2, <1>5, <2>1 DEF CountLike, Comment, DiscountLike, TapAt, TapStates
<1>6. ASSUME NEW t \in Taps, Unlike(t) PROVE LikesTypeOK'
  BY <1>0, <1>2, <1>6 DEF Unlike, TapAt, TapStates
<1>7. ASSUME NEW t \in Taps, SavePost(t) \/ DeleteComment(t) \/ DieTapping(t) PROVE LikesTypeOK'
  BY <1>0, <1>2, <1>3, <1>7 DEF SavePost, DeleteComment, DieTapping, TapAt, TapStates
<1>8. CASE UNCHANGED likesVars
  BY <1>8 DEF likesVars, LikesTypeOK
<1> QED BY <1>1, <1>4, <1>5, <1>6, <1>7, <1>8 DEF LikesNext

\* A step of a request that neither has a like to count nor gets one.
LEMMA ElsewhereKeepsCount ==
    ASSUME LikesTypeOK, UncountedAreThere, LikesAreCounted, ~spoilt, NEW t \in Taps,
           \A u \in Taps : u # t => tap'[u] = tap[u],
           tap[t].pc \notin {"count", "discount"}, tap'[t].pc \notin {"count", "discount"},
           likes' = likes, counts'.likes = counts.likes
    PROVE  UncountedAreThere' /\ LikesAreCounted'
<1>1. AtStage("count")' = AtStage("count") /\ AtStage("discount")' = AtStage("discount")
  BY DEF AtStage, TapAt
<1>2. \A u \in AtStage("count") : tap'[u] = tap[u]
  BY DEF AtStage, TapAt
<1>3. Uncounted("count")' = Uncounted("count") /\ Uncounted("discount")' = Uncounted("discount")
  BY <1>1 DEF Uncounted, AtStage
<1> QED BY <1>1, <1>2, <1>3 DEF UncountedAreThere, LikesAreCounted

LEMMA NextLikesInv == LikesInv /\ [LikesNext]_likesVars => LikesInv'
<1> SUFFICES ASSUME LikesInv, [LikesNext]_likesVars, ~spoilt'
             PROVE  UncountedAreThere' /\ LikesAreCounted'
  BY NextLikesTypeOK DEF LikesInv
<1>0. LikesTypeOK /\ ~spoilt /\ UncountedAreThere /\ LikesAreCounted
  <2>1. LikesTypeOK /\ ~spoilt
    <3>1. ASSUME NEW t \in Taps,
                 \/ Like(t) \/ CountLike(t) \/ Unlike(t) \/ DiscountLike(t)
                 \/ Comment(t) \/ DeleteComment(t) \/ SavePost(t) \/ DieTapping(t)
          PROVE  ~spoilt
      BY <3>1 DEF Like, CountLike, Unlike, DiscountLike, Comment, DeleteComment, SavePost,
         DieTapping
    <3>2. ASSUME NEW t \in Taps, NEW liker, NEW kind, LoadPost(t, liker, kind) PROVE ~spoilt
      BY <3>2 DEF LoadPost
    <3>3. ASSUME UNCHANGED likesVars PROVE ~spoilt
      BY <3>3 DEF likesVars
    <3> QED BY <3>1, <3>2, <3>3 DEF LikesInv, LikesNext
  <2> QED BY <2>1 DEF LikesInv
<1>a. /\ counts.likes \in Int /\ Cardinality(likes) \in Nat
      /\ Uncounted("count") = Cardinality(AtStage("count"))
      /\ Uncounted("discount") = Cardinality(AtStage("discount"))
      /\ Uncounted("count") \in Nat /\ Uncounted("discount") \in Nat
  <2>1. /\ Uncounted("count") = Cardinality(AtStage("count"))
        /\ Uncounted("discount") = Cardinality(AtStage("discount"))
    BY DEF Uncounted, AtStage
  <2>2. /\ IsFiniteSet(likes) /\ IsFiniteSet(AtStage("count"))
        /\ IsFiniteSet(AtStage("discount"))
    BY <1>0, LikesAssumption, FS_Subset DEF LikesTypeOK, AtStage
  <2> QED BY <1>0, <2>1, <2>2, FS_CardinalityType DEF LikesTypeOK, CountValues
<1>b. ASSUME NEW t \in Taps, NEW pc, GoesOn(t, pc)
      PROVE  /\ \A u \in Taps : u # t => tap'[u] = tap[u]
             /\ tap[t].pc # "new" => tap'[t].pc = pc /\ tap'[t].liker = tap[t].liker
             /\ pc \in {"done"} => tap'[t].pc = "done"
  BY <1>0, <1>b DEF GoesOn, LikesTypeOK
<1>1. ASSUME NEW t \in Taps, NEW liker \in Likers,
             NEW kind \in {"like", "unlike", "comment", "delete", "edit"},
             LoadPost(t, liker, kind)
      PROVE  UncountedAreThere' /\ LikesAreCounted'
  BY <1>0, <1>1, ElsewhereKeepsCount DEF LoadPost, TapAt, LikesTypeOK
<1>2. ASSUME NEW t \in Taps, Like(t) PROVE UncountedAreThere' /\ LikesAreCounted'
  <2> DEFINE l == tap[t].liker
  <2>1. CASE l \in likes
    <3>1. likes' = likes
      BY <1>2, <2>1 DEF Like
    <3> QED BY <1>0, <1>2, <1>b, <2>1, <3>1, ElsewhereKeepsCount DEF Like, TapAt
  <2>2. CASE l \notin likes
    <3>1. /\ likes' = likes \cup {l} /\ counts' = counts /\ tap[t].pc = "like"
          /\ tap'[t].pc = "count" /\ tap'[t].liker = l
          /\ \A u \in Taps : u # t => tap'[u] = tap[u]
      BY <1>2, <1>b, <2>2 DEF Like, TapAt
    <3>2. /\ AtStage("count")' = AtStage("count") \cup {t} /\ t \notin AtStage("count")
          /\ AtStage("discount")' = AtStage("discount") /\ l \in Likers
      BY <1>0, <3>1 DEF AtStage, TapAt, LikesTypeOK
    <3>3. /\ Uncounted("count")' = Uncounted("count") + 1
          /\ Uncounted("discount")' = Uncounted("discount")
          /\ Cardinality(likes') = Cardinality(likes) + 1
      <4>1. AtStage("count") \in SUBSET Taps
        BY DEF AtStage
      <4> QED BY <1>0, <1>a, <2>2, <3>1, <3>2, <4>1, SizesFollow DEF Uncounted, AtStage
    <3>4. LikesAreCounted'
      BY <1>0, <1>a, <3>1, <3>3 DEF LikesAreCounted
    <3>5. \A u \in AtStage("count") : tap[u].liker \in likes /\ tap'[u] = tap[u] /\ u # t
      BY <1>0, <3>1, <3>2 DEF UncountedAreThere, AtStage
    <3>6. UncountedAreThere'
      BY <1>0, <2>2, <3>1, <3>2, <3>5 DEF UncountedAreThere
    <3> QED BY <3>4, <3>6
  <2> QED BY <2>1, <2>2
<1>3. ASSUME NEW t \in Taps, CountLike(t) PROVE UncountedAreThere' /\ LikesAreCounted'
  <2>1. /\ likes' = likes /\ counts'.likes = counts.likes + 1 /\ tap[t].pc = "count"
        /\ tap'[t].pc = "done" /\ \A u \in Taps : u # t => tap'[u] = tap[u]
    BY <1>0, <1>3, <1>b DEF CountLike, TapAt, LikesTypeOK, CountValues
  <2>2. /\ AtStage("count")' = AtStage("count") \ {t} /\ t \in AtStage("count")
        /\ AtStage("discount")' = AtStage("discount")
    BY <2>1 DEF AtStage, TapAt
  <2>3. /\ Uncounted("count")' = Uncounted("count") - 1
        /\ Uncounted("discount")' = Uncounted("discount")
    <3>1. AtStage("count") \in SUBSET Taps
      BY DEF AtStage
    <3> QED BY <1>0, <1>a, <2>2, <3>1, SizesFollow DEF Uncounted, AtStage
  <2>4. LikesAreCounted'
    BY <1>0, <1>a, <2>1, <2>3 DEF LikesAreCounted
  <2>5. \A u \in AtStage("count") : u # t => tap'[u] = tap[u]
    BY <2>1 DEF AtStage
  <2>6. UncountedAreThere'
    BY <1>0, <2>1, <2>2, <2>5 DEF UncountedAreThere
  <2> QED BY <2>4, <2>6
<1>4. ASSUME NEW t \in Taps, Unlike(t) PROVE UncountedAreThere' /\ LikesAreCounted'
  <2> DEFINE l == tap[t].liker
  <2>1. CASE l \notin likes
    <3>1. likes' = likes
      BY <1>4, <2>1 DEF Unlike
    <3> QED BY <1>0, <1>4, <1>b, <2>1, <3>1, ElsewhereKeepsCount DEF Unlike, HadLiked, TapAt
  <2>2. CASE l \in likes
    <3>1. /\ likes' = likes \ {l} /\ counts' = counts /\ tap[t].pc = "unlike"
          /\ tap'[t].pc = "discount" /\ \A u \in Taps : u # t => tap'[u] = tap[u]
          /\ \A u \in AtStage("count") : tap[u].liker # l
      BY <1>4, <1>b, <2>2 DEF Unlike, HadLiked, TapAt, AtStage
    <3>2. /\ AtStage("discount")' = AtStage("discount") \cup {t} /\ t \notin AtStage("discount")
          /\ AtStage("count")' = AtStage("count") /\ l \in Likers
      BY <1>0, <2>2, <3>1 DEF AtStage, TapAt, LikesTypeOK
    <3>3. /\ Uncounted("discount")' = Uncounted("discount") + 1
          /\ Uncounted("count")' = Uncounted("count")
          /\ Cardinality(likes') = Cardinality(likes) - 1
      <4>1. AtStage("discount") \in SUBSET Taps
        BY DEF AtStage
      <4> QED BY <1>0, <1>a, <2>2, <3>1, <3>2, <4>1, SizesFollow DEF Uncounted, AtStage
    <3>4. LikesAreCounted'
      BY <1>0, <1>a, <3>1, <3>3 DEF LikesAreCounted
    <3>5. \A u \in AtStage("count") : tap'[u] = tap[u]
      BY <3>1 DEF AtStage, TapAt
    <3>6. UncountedAreThere'
      BY <1>0, <3>1, <3>2, <3>5 DEF UncountedAreThere
    <3> QED BY <3>4, <3>6
  <2> QED BY <2>1, <2>2
<1>5. ASSUME NEW t \in Taps, DiscountLike(t) PROVE UncountedAreThere' /\ LikesAreCounted'
  <2>1. /\ likes' = likes /\ tap[t].pc = "discount" /\ tap'[t].pc = "done"
        /\ \A u \in Taps : u # t => tap'[u] = tap[u]
    BY <1>5, <1>b DEF DiscountLike, TapAt
  <2>2. /\ AtStage("discount")' = AtStage("discount") \ {t} /\ t \in AtStage("discount")
        /\ AtStage("count")' = AtStage("count")
    BY <2>1 DEF AtStage, TapAt
  <2>3. counts'.likes = counts.likes - 1
    <3>1. counts.likes > 0
      BY <1>0, <2>2, CountIsPositive
    <3> QED BY <1>0, <1>5, <3>1 DEF DiscountLike, LikesTypeOK, CountValues
  <2>4. /\ Uncounted("discount")' = Uncounted("discount") - 1
        /\ Uncounted("count")' = Uncounted("count")
    <3>1. AtStage("discount") \in SUBSET Taps
      BY DEF AtStage
    <3> QED BY <1>0, <1>a, <2>2, <3>1, SizesFollow DEF Uncounted, AtStage
  <2>5. LikesAreCounted'
    BY <1>0, <1>a, <2>1, <2>3, <2>4 DEF LikesAreCounted
  <2>6. \A u \in AtStage("count") : tap'[u] = tap[u]
    BY <2>1 DEF AtStage, TapAt
  <2>7. UncountedAreThere'
    BY <1>0, <2>1, <2>2, <2>6 DEF UncountedAreThere
  <2> QED BY <2>5, <2>7
<1>6. ASSUME NEW t \in Taps, Comment(t) \/ DeleteComment(t) \/ SavePost(t) \/ DieTapping(t)
      PROVE  UncountedAreThere' /\ LikesAreCounted'
  <2>1. /\ likes' = likes /\ GoesOn(t, "done") /\ tap[t].pc \notin {"count", "discount"}
    BY <1>6 DEF Comment, DeleteComment, SavePost, DieTapping, TapAt
  <2>2. counts'.likes = counts.likes
    BY <1>0, <1>6 DEF Comment, DeleteComment, SavePost, DieTapping, LikesTypeOK, CountValues
  <2> QED BY <1>0, <1>b, <2>1, <2>2, ElsewhereKeepsCount
<1>7. CASE UNCHANGED likesVars
  BY <1>0, <1>7 DEF likesVars, UncountedAreThere, LikesAreCounted, Uncounted, AtStage, TapAt
<1> QED
  BY <1>1, <1>2, <1>3, <1>4, <1>5, <1>6, <1>7 DEF LikesNext

\* The count beside a post stays equal to its likes, pending steps aside, however the
\* requests of any number of users interleave, as long as no edit saves an old count, no
\* request dies between the two and no like is taken back before it was counted.
THEOREM LikesStayCounted == LikesSpec => []LikesAreCounted
<1>1. LikesInv => LikesAreCounted
  BY DEF LikesInv, LikesAreCounted
<1> QED
  BY <1>1, InitLikesInv, NextLikesInv, PTL DEF LikesSpec

-----------------------------------------------------------------------------
(***************************************************************************)
(* Community: who was let in has accepted, and what is made twice has met  *)
(***************************************************************************)
CommunitySpec == CommunityInit /\ [][CommunityNext]_communityVars

Agreeing == {"looking", "getting", "creating", "accepting"}
Partaking == {"permitted", "inserting"}
Agreement == [active : BOOLEAN, accepted : SUBSET Members]
AskStates == Agreeing \cup Partaking \cup {"done", "failed"}
Begun == [pc : AskStates, kind : Kinds \cup {"read", "accept"}, by : Members, agreement : Nat]

CommunityTypeOK ==
    /\ agreements \in Seq(Agreement)
    /\ entries \in [Members -> Nat]
    /\ added \in SUBSET (Members \X (Kinds \cup {"read", "accept"}))
    /\ ask \in [Asks -> [pc : {"new"}] \cup Begun]
    /\ met \in SUBSET SUBSET Asks

HasAccepted(m) == \E t \in 1..Len(agreements) : m \in agreements[t].accepted

\* Whoever was let in has accepted, and so has whoever left something.
LetInAccepted ==
    /\ \A x \in added : HasAccepted(x[1])
    /\ \A a \in Asks : ask[a].pc \in Partaking => HasAccepted(ask[a].by)

\* Requests in progress are on record as pairs, and a pair has begun.
PairsAreMet ==
    /\ \A a, b \in Asks : a # b /\ InProgress(a) /\ InProgress(b) => {a, b} \in met
    /\ \A pair \in met : \A a \in pair : ask[a].pc # "new"
    /\ \A a \in Asks :
          /\ ask[a].pc \in Agreeing => ask[a].kind \in {"read", "accept"}
          /\ ask[a].pc = "inserting" => ask[a].kind = "work"

MetOf(kinds) == \E pair \in met : \A a \in pair : ask[a].kind \in kinds

\* What is made twice, or is about to be, was preceded by an overlap.
TwiceAfterMeeting ==
    /\ Cardinality(Active) > 1 => MetOf({"read", "accept"})
    /\ \A a \in Asks : ask[a].pc = "creating" /\ Active # {} => MetOf({"read", "accept"})
    /\ \A m \in Members : entries[m] > 1 => MetOf({"work"})
    /\ \A a \in Asks :
          ask[a].pc = "inserting" /\ entries[ask[a].by] > 0 => MetOf({"work"})

CommunityInv == CommunityTypeOK /\ LetInAccepted /\ PairsAreMet /\ TwiceAfterMeeting

LEMMA MinIsMember ==
    ASSUME NEW S \in SUBSET Nat, IsFiniteSet(S), S # {}
    PROVE  Min(S) \in S
<1> DEFINE Below(m) == {n \in S : n < m}
           T == {Below(m) : m \in S}
<1>1. T \subseteq FiniteSubsetsOf(S) /\ T # {}
  <2>1. T \subseteq SUBSET S /\ T # {}
    OBVIOUS
  <2> QED BY <2>1, FS_FiniteSubsetsOfFinite
<1>2. \E x \in T : \A y \in T : ~(<<y, x>> \in StrictSubsetOrdering(S))
  <2> HIDE DEF T
  <2> QED BY <1>1, FS_StrictSubsetOrderingWellFounded, WFMin
<1>3. PICK m \in S : \A y \in T : ~(<<y, Below(m)>> \in StrictSubsetOrdering(S))
  BY <1>2
<1>4. \A n \in S : m <= n
  <2> SUFFICES ASSUME NEW n \in S, n < m PROVE FALSE
    OBVIOUS
  <2>0. m \in Int /\ n \in Int /\ \A k \in S : k \in Int
    OBVIOUS
  <2>1. Below(n) \subseteq Below(m) /\ n \in Below(m) /\ n \notin Below(n)
    <3>1. \A k \in S : k < n => k < m
      BY <2>0
    <3>2. ~(n < n)
      BY <2>0
    <3> QED BY <3>1, <3>2
  <2>2. <<Below(n), Below(m)>> \in StrictSubsetOrdering(S)
    BY <2>1 DEF StrictSubsetOrdering
  <2> QED BY <1>3, <2>2
<1> QED BY <1>4 DEF Min

LEMMA MaxIsMember ==
    ASSUME NEW S \in SUBSET Nat, IsFiniteSet(S), S # {}
    PROVE  Max(S) \in S
<1> DEFINE Above(m) == {n \in S : n > m}
           T == {Above(m) : m \in S}
<1>1. T \subseteq FiniteSubsetsOf(S) /\ T # {}
  <2>1. T \subseteq SUBSET S /\ T # {}
    OBVIOUS
  <2> QED BY <2>1, FS_FiniteSubsetsOfFinite
<1>2. \E x \in T : \A y \in T : ~(<<y, x>> \in StrictSubsetOrdering(S))
  <2> HIDE DEF T
  <2> QED BY <1>1, FS_StrictSubsetOrderingWellFounded, WFMin
<1>3. PICK m \in S : \A y \in T : ~(<<y, Above(m)>> \in StrictSubsetOrdering(S))
  BY <1>2
<1>4. \A n \in S : m >= n
  <2> SUFFICES ASSUME NEW n \in S, n > m PROVE FALSE
    OBVIOUS
  <2>0. m \in Int /\ n \in Int /\ \A k \in S : k \in Int
    OBVIOUS
  <2>1. Above(n) \subseteq Above(m) /\ n \in Above(m) /\ n \notin Above(n)
    <3>1. \A k \in S : k > n => k > m
      BY <2>0
    <3>2. ~(n > n)
      BY <2>0
    <3> QED BY <3>1, <3>2
  <2>2. <<Above(n), Above(m)>> \in StrictSubsetOrdering(S)
    BY <2>1 DEF StrictSubsetOrdering
  <2> QED BY <1>3, <2>2
<1> QED BY <1>4 DEF Max

LEMMA ActiveIsFinite ==
    ASSUME CommunityTypeOK
    PROVE  /\ Active \in SUBSET (1..Len(agreements)) /\ IsFiniteSet(Active)
           /\ Active # {} => Min(Active) \in Active /\ Max(Active) \in Active
<1>1. Len(agreements) \in Nat
  BY DEF CommunityTypeOK
<1>2. Active \in SUBSET (1..Len(agreements))
  BY DEF Active
<1>3. IsFiniteSet(Active) /\ Active \in SUBSET Nat
  <2>1. IsFiniteSet(1..Len(agreements)) /\ 1..Len(agreements) \subseteq Nat
    BY <1>1, FS_Interval
  <2> QED BY <1>2, <2>1, FS_Subset
<1> QED BY <1>2, <1>3, MinIsMember, MaxIsMember

LEMMA PermittedHasAccepted ==
    ASSUME CommunityTypeOK, NEW m \in Members, Permitted(m)
    PROVE  HasAccepted(m)
BY ActiveIsFinite DEF Permitted, HasAccepted

LEMMA InitCommunityInv == CommunityInit => CommunityInv
<1> SUFFICES ASSUME CommunityInit PROVE CommunityInv
  OBVIOUS
<1>1. \A a \in Asks : ask[a] = [pc |-> "new"]
  BY DEF CommunityInit
<1>2. CommunityTypeOK
  <2>1. ask \in [Asks -> [pc : {"new"}] \cup Begun]
    <3>1. [pc |-> "new"] \in [pc : {"new"}]
      OBVIOUS
    <3> QED BY <3>1 DEF CommunityInit
  <2> QED BY <2>1 DEF CommunityInit, CommunityTypeOK
<1>3. LetInAccepted /\ PairsAreMet
  BY <1>1 DEF CommunityInit, LetInAccepted, PairsAreMet, InProgress, Agreeing, Partaking
<1>4. Active = {} /\ Cardinality(Active) = 0
  BY FS_EmptySet DEF CommunityInit, Active
<1>5. TwiceAfterMeeting
  BY <1>1, <1>4 DEF CommunityInit, TwiceAfterMeeting
<1> QED BY <1>2, <1>3, <1>5 DEF CommunityInv

\* What a request becomes, by how it goes on.
LEMMA AsksFollow ==
    ASSUME CommunityTypeOK, NEW a \in Asks
    PROVE  /\ \A kind \in Kinds \cup {"read", "accept"}, m \in Members, pc \in AskStates :
                Starts(a, kind, m, pc) =>
                    /\ ask[a].pc = "new" /\ ask'[a].pc = pc
                    /\ ask'[a].kind = kind /\ ask'[a].by = m /\ ask'[a] \in Begun
                    /\ \A b \in Asks : b # a => ask'[b] = ask[b]
           /\ \A here \in AskStates, there \in AskStates :
                Moves(a, here, there) =>
                    /\ ask[a].pc = here /\ ask[a] \in Begun /\ ask'[a].pc = there
                    /\ ask'[a].kind = ask[a].kind /\ ask'[a].by = ask[a].by /\ ask'[a] \in Begun
                    /\ \A b \in Asks : b # a => ask'[b] = ask[b]
           /\ \A here \in AskStates, t \in Nat :
                Has(a, here, t) =>
                    /\ ask[a].pc = here /\ ask[a] \in Begun
                    /\ ask'[a].pc \in {"accepting", "done"}
                    /\ ask'[a].pc = "accepting" => ask[a].kind = "accept"
                    /\ ask'[a].kind = ask[a].kind /\ ask'[a].by = ask[a].by /\ ask'[a] \in Begun
                    /\ \A b \in Asks : b # a => ask'[b] = ask[b]
<1>0. ask \in [Asks -> [pc : {"new"}] \cup Begun] /\ "new" \notin AskStates
  BY DEF CommunityTypeOK, AskStates, Agreeing, Partaking
<1>1. ASSUME NEW kind \in Kinds \cup {"read", "accept"}, NEW m \in Members, NEW pc \in AskStates,
             Starts(a, kind, m, pc)
      PROVE  /\ ask[a].pc = "new" /\ ask'[a].pc = pc
             /\ ask'[a].kind = kind /\ ask'[a].by = m /\ ask'[a] \in Begun
             /\ \A b \in Asks : b # a => ask'[b] = ask[b]
  BY <1>0, <1>1 DEF Starts, Begun
<1>2. ASSUME NEW here \in AskStates, NEW there \in AskStates, Moves(a, here, there)
      PROVE  /\ ask[a].pc = here /\ ask[a] \in Begun /\ ask'[a].pc = there
             /\ ask'[a].kind = ask[a].kind /\ ask'[a].by = ask[a].by /\ ask'[a] \in Begun
             /\ \A b \in Asks : b # a => ask'[b] = ask[b]
  <2>1. ask[a].pc = here /\ ask[a] \in Begun
    BY <1>0, <1>2 DEF Moves
  <2>2. ask'[a] = [ask[a] EXCEPT !.pc = there] /\ \A b \in Asks : b # a => ask'[b] = ask[b]
    BY <1>0, <1>2 DEF Moves
  <2> QED BY <2>1, <2>2 DEF Begun
<1>3. ASSUME NEW here \in AskStates, NEW t \in Nat, Has(a, here, t)
      PROVE  /\ ask[a].pc = here /\ ask[a] \in Begun
             /\ ask'[a].pc \in {"accepting", "done"}
             /\ ask'[a].pc = "accepting" => ask[a].kind = "accept"
             /\ ask'[a].kind = ask[a].kind /\ ask'[a].by = ask[a].by /\ ask'[a] \in Begun
             /\ \A b \in Asks : b # a => ask'[b] = ask[b]
  <2> DEFINE there == IF ask[a].kind = "accept" THEN "accepting" ELSE "done"
  <2>1. ask[a].pc = here /\ ask[a] \in Begun
    BY <1>0, <1>3 DEF Has
  <2>2. /\ ask'[a] = [ask[a] EXCEPT !.agreement = t, !.pc = there]
        /\ \A b \in Asks : b # a => ask'[b] = ask[b]
    BY <1>0, <1>3 DEF Has
  <2>3. there \in AskStates
    BY DEF AskStates, Agreeing
  <2> QED BY <2>1, <2>2, <2>3 DEF Begun
<1> QED BY <1>1, <1>2, <1>3

\* A request that begins meets all that run.
LEMMA StartKeepsPairs ==
    ASSUME CommunityTypeOK, PairsAreMet, NEW a \in Asks,
           NEW kind \in Kinds \cup {"read", "accept"}, NEW m \in Members, NEW pc \in AskStates,
           Starts(a, kind, m, pc),
           pc \in Agreeing => kind \in {"read", "accept"}, pc # "inserting"
    PROVE  PairsAreMet' /\ \A kinds : MetOf(kinds) => MetOf(kinds)'
<1>1. /\ ask[a].pc = "new" /\ ask'[a].pc = pc /\ ask'[a].kind = kind
      /\ \A b \in Asks : b # a => ask'[b] = ask[b]
  BY AsksFollow
<1>2. met' = met \cup {{a, b} : b \in {x \in Asks : InProgress(x)}}
  BY DEF Starts
<1>3. \A pair \in met : a \notin pair /\ pair \subseteq Asks
  BY <1>1 DEF PairsAreMet, CommunityTypeOK
<1>4. \A kinds : MetOf(kinds) => MetOf(kinds)'
  BY <1>1, <1>2, <1>3 DEF MetOf
<1>5. ASSUME NEW b \in Asks, NEW c \in Asks, b # c, InProgress(b)', InProgress(c)'
      PROVE  {b, c} \in met'
  <2>1. \A d \in Asks : d # a /\ InProgress(d)' => InProgress(d) /\ {a, d} \in met'
    BY <1>1, <1>2 DEF InProgress
  <2> QED BY <1>2, <1>5, <2>1 DEF PairsAreMet
<1>6. \A pair \in met' : \A b \in pair : ask'[b].pc # "new"
  <2>1. pc # "new"
    BY DEF AskStates, Agreeing, Partaking
  <2>2. \A b \in Asks : InProgress(b) => ask[b].pc # "new"
    BY DEF InProgress
  <2> QED BY <1>1, <1>2, <1>3, <2>1, <2>2 DEF PairsAreMet
<1>7. \A b \in Asks : /\ ask'[b].pc \in Agreeing => ask'[b].kind \in {"read", "accept"}
                      /\ ask'[b].pc = "inserting" => ask'[b].kind = "work"
  BY <1>1 DEF PairsAreMet
<1> QED BY <1>4, <1>5, <1>6, <1>7 DEF PairsAreMet

\* A request that goes on has met whoever runs.
LEMMA MoveKeepsPairs ==
    ASSUME CommunityTypeOK, PairsAreMet, NEW a \in Asks, InProgress(a), met' = met,
           \A b \in Asks : b # a => ask'[b] = ask[b],
           ask'[a].kind = ask[a].kind, ask'[a].pc # "new",
           ask'[a].pc \in Agreeing => ask[a].pc \in Agreeing,
           ask'[a].pc = "inserting" => ask[a].kind = "work"
    PROVE  PairsAreMet' /\ \A kinds : MetOf(kinds) => MetOf(kinds)'
<1>1. \A b \in Asks : ask'[b].kind = ask[b].kind
  OBVIOUS
<1>2. \A pair \in met : pair \subseteq Asks
  BY DEF CommunityTypeOK
<1>3. \A kinds : MetOf(kinds) => MetOf(kinds)'
  BY <1>1, <1>2 DEF MetOf
<1>4. \A b \in Asks : InProgress(b)' => InProgress(b)
  BY DEF InProgress
<1>5. \A pair \in met' : \A b \in pair : ask'[b].pc # "new"
  BY <1>2 DEF PairsAreMet
<1>6. \A b \in Asks : /\ ask'[b].pc \in Agreeing => ask'[b].kind \in {"read", "accept"}
                      /\ ask'[b].pc = "inserting" => ask'[b].kind = "work"
  BY <1>1 DEF PairsAreMet
<1> QED BY <1>3, <1>4, <1>5, <1>6 DEF PairsAreMet

\* A step that adds no agreement and no entry keeps the rest, if nobody starts to make one.
LEMMA NothingMadeKeepsInv ==
    ASSUME CommunityInv, CommunityTypeOK', PairsAreMet', \A kinds : MetOf(kinds) => MetOf(kinds)',
           NEW a \in Asks, \A b \in Asks : b # a => ask'[b] = ask[b],
           Active' = Active, \A m \in Members : HasAccepted(m) => HasAccepted(m)',
           \A m \in Members : entries'[m] <= entries[m],
           \A x \in added' : x \in added \/ HasAccepted(x[1]),
           ask'[a].pc \in Partaking => HasAccepted(ask'[a].by),
           ask'[a].pc = "creating" => Active = {},
           ask'[a].pc = "inserting" => entries[ask'[a].by] = 0
    PROVE  CommunityInv'
<1>0. CommunityTypeOK /\ LetInAccepted /\ TwiceAfterMeeting
  BY DEF CommunityInv
<1>1. \A b \in Asks : ask'[b].pc \in Partaking => ask'[b].by \in Members
  BY DEF CommunityTypeOK, Begun, Partaking
<1>2. LetInAccepted'
  <2>1. \A x \in added' : x[1] \in Members
    BY DEF CommunityTypeOK
  <2> QED BY <1>0, <1>1, <2>1 DEF LetInAccepted
<1>3. \A m \in Members : entries[m] \in Nat /\ entries'[m] \in Nat
  BY <1>0 DEF CommunityTypeOK
<1>4. \A m \in Members : (entries'[m] > 1 => entries[m] > 1) /\ (entries'[m] > 0 => entries[m] > 0)
  BY <1>3
<1>5. \A b \in Asks : ask'[b].pc = "inserting" => ask'[b].by \in Members
  BY <1>1 DEF Partaking
<1>6. ASSUME NEW b \in Asks, ask'[b].pc = "inserting", entries'[ask'[b].by] > 0
      PROVE  MetOf({"work"})'
  <2>1. CASE b = a
    BY <1>3, <1>4, <1>5, <1>6, <2>1
  <2>2. CASE b # a
    BY <1>0, <1>4, <1>5, <1>6, <2>2 DEF TwiceAfterMeeting
  <2> QED BY <2>1, <2>2
<1>7. TwiceAfterMeeting'
  BY <1>0, <1>4, <1>6 DEF TwiceAfterMeeting
<1> QED BY <1>2, <1>7 DEF CommunityInv

\* Accepting, replacing and making an agreement keep the agreements well formed and
\* what has been accepted.
LEMMA AgreementsFollow ==
    ASSUME CommunityTypeOK
    PROVE  /\ \A a \in Asks : Accept(a) =>
                /\ agreements' \in Seq(Agreement) /\ Active' = Active
                /\ \A m \in Members : HasAccepted(m) => HasAccepted(m)'
           /\ agreements' = Add(agreements) =>
                /\ agreements' \in Seq(Agreement)
                /\ Active' = Active \cup {Len(agreements) + 1}
                /\ \A m \in Members : HasAccepted(m) => HasAccepted(m)'
           /\ agreements' =
                Add([t \in 1..Len(agreements) |-> [agreements[t] EXCEPT !.active = FALSE]]) =>
                /\ agreements' \in Seq(Agreement)
                /\ Active' = {Len(agreements) + 1}
                /\ \A m \in Members : HasAccepted(m) => HasAccepted(m)'
<1> DEFINE n == Len(agreements)
           fresh == [active |-> TRUE, accepted |-> {}]
<1>0. n \in Nat /\ fresh \in Agreement /\ agreements \in [1..n -> Agreement]
  <2>1. fresh \in Agreement
    BY DEF Agreement
  <2> QED BY <2>1, LenProperties DEF CommunityTypeOK
<1>1. ASSUME NEW a \in Asks, Accept(a)
      PROVE  /\ agreements' \in Seq(Agreement) /\ Active' = Active
             /\ \A m \in Members : HasAccepted(m) => HasAccepted(m)'
  <2>1. ask[a] \in Begun
    BY <1>1, AsksFollow DEF Accept, AskStates, Agreeing
  <2> DEFINE k == ask[a].agreement
             by == ask[a].by
  <2>2. by \in Members
    BY <2>1 DEF Begun
  <2>3. agreements' = [agreements EXCEPT ![k].accepted = @ \cup {by}]
    BY <1>1 DEF Accept
  <2>4. CASE k \in 1..n
    <3>1. [agreements[k] EXCEPT !.accepted = @ \cup {by}] \in Agreement
      BY <1>0, <2>2, <2>4 DEF Agreement
    <3>2. agreements' \in [1..n -> Agreement]
      BY <1>0, <2>3, <2>4, <3>1
    <3>3. /\ Len(agreements') = n /\ agreements' \in Seq(Agreement)
          /\ \A t \in 1..n : /\ agreements'[t].active = agreements[t].active
                             /\ agreements[t].accepted \subseteq agreements'[t].accepted
      <4>1. Len(agreements') = n /\ agreements' \in Seq(Agreement)
        BY <1>0, <3>2
      <4>2. /\ \A t \in 1..n : t # k => agreements'[t] = agreements[t]
            /\ agreements'[k] = [agreements[k] EXCEPT !.accepted = @ \cup {by}]
        BY <1>0, <2>3, <2>4
      <4>3. /\ agreements'[k].active = agreements[k].active
            /\ agreements'[k].accepted = agreements[k].accepted \cup {by}
        BY <1>0, <2>4, <4>2 DEF Agreement
      <4> QED BY <4>1, <4>2, <4>3
    <3> QED BY <1>0, <3>3 DEF Active, HasAccepted
  <2>5. CASE k \notin 1..n
    <3>1. agreements' = agreements
      BY <1>0, <2>3, <2>5
    <3> QED BY <3>1 DEF Active, HasAccepted, CommunityTypeOK
  <2> QED BY <2>4, <2>5
<1>2. ASSUME NEW old \in Seq(Agreement), Len(old) = n, agreements' = Append(old, fresh)
      PROVE  /\ agreements' \in Seq(Agreement) /\ Len(agreements') = n + 1
             /\ agreements'[n + 1] = fresh
             /\ \A t \in 1..n : agreements'[t] = old[t]
  BY <1>0, <1>2
<1>3. ASSUME agreements' = Add(agreements)
      PROVE  /\ agreements' \in Seq(Agreement) /\ Active' = Active \cup {n + 1}
             /\ \A m \in Members : HasAccepted(m) => HasAccepted(m)'
  <2>1. /\ agreements' \in Seq(Agreement) /\ Len(agreements') = n + 1
        /\ agreements'[n + 1] = fresh
        /\ \A t \in 1..n : agreements'[t] = agreements[t]
    BY <1>2, <1>3 DEF Add, CommunityTypeOK
  <2>2. 1..(n + 1) = (1..n) \cup {n + 1}
    BY <1>0
  <2>3. Active' = Active \cup {n + 1}
    BY <2>1, <2>2 DEF Active
  <2>4. \A m \in Members : HasAccepted(m) => HasAccepted(m)'
    BY <2>1, <2>2 DEF HasAccepted
  <2> QED BY <2>1, <2>3, <2>4
<1>4. ASSUME agreements' =
                Add([t \in 1..Len(agreements) |-> [agreements[t] EXCEPT !.active = FALSE]])
      PROVE  /\ agreements' \in Seq(Agreement) /\ Active' = {n + 1}
             /\ \A m \in Members : HasAccepted(m) => HasAccepted(m)'
  <2> DEFINE old == [t \in 1..n |-> [agreements[t] EXCEPT !.active = FALSE]]
  <2>1. \A t \in 1..n : /\ [agreements[t] EXCEPT !.active = FALSE] \in Agreement
                        /\ [agreements[t] EXCEPT !.active = FALSE].active = FALSE
                        /\ [agreements[t] EXCEPT !.active = FALSE].accepted = agreements[t].accepted
    BY <1>0 DEF Agreement
  <2>2. old \in [1..n -> Agreement]
    BY <2>1
  <2>3. old \in Seq(Agreement) /\ Len(old) = n
    BY <1>0, <2>2
  <2>4. \A t \in 1..n : old[t].active = FALSE /\ old[t].accepted = agreements[t].accepted
    BY <2>1
  <2>5. agreements' = Append(old, fresh)
    BY <1>4 DEF Add
  <2> HIDE DEF old
  <2>6. /\ agreements' \in Seq(Agreement) /\ Len(agreements') = n + 1
        /\ agreements'[n + 1] = fresh
        /\ \A t \in 1..n : agreements'[t] = old[t]
    BY <1>2, <2>3, <2>5
  <2>7. 1..(n + 1) = (1..n) \cup {n + 1}
    BY <1>0
  <2>8. Active' = {n + 1}
    BY <2>4, <2>6, <2>7 DEF Active
  <2>9. \A m \in Members : HasAccepted(m) => HasAccepted(m)'
    BY <2>4, <2>6, <2>7 DEF HasAccepted
  <2> QED BY <2>6, <2>8, <2>9
<1> QED BY <1>1, <1>3, <1>4

LEMMA NextCommunityTypeOK ==
    CommunityTypeOK /\ [CommunityNext]_communityVars => CommunityTypeOK'
<1> SUFFICES ASSUME CommunityTypeOK, [CommunityNext]_communityVars PROVE CommunityTypeOK'
  OBVIOUS
<1>0. /\ \A a \in Asks : ask[a] \in [pc : {"new"}] \cup Begun
      /\ ask \in [Asks -> [pc : {"new"}] \cup Begun]
  BY DEF CommunityTypeOK
<1>1. ASSUME NEW a \in Asks, DOMAIN ask' = Asks, ask'[a] \in Begun,
             \A b \in Asks : b # a => ask'[b] = ask[b], ask' = [x \in Asks |-> ask'[x]]
      PROVE  ask' \in [Asks -> [pc : {"new"}] \cup Begun]
  BY <1>0, <1>1
<1>2. ASSUME NEW a \in Asks, NEW value, ask' = [ask EXCEPT ![a] = value], ask'[a] \in Begun
      PROVE  ask' \in [Asks -> [pc : {"new"}] \cup Begun]
  BY <1>0, <1>2
<1>3. ASSUME NEW a \in Asks, NEW kind \in Kinds \cup {"read", "accept"}, NEW m \in Members,
             NEW pc \in AskStates, Starts(a, kind, m, pc)
      PROVE  ask' \in [Asks -> [pc : {"new"}] \cup Begun] /\ met' \in SUBSET SUBSET Asks
  <2>1. ask'[a] \in Begun
    BY <1>3, AsksFollow
  <2> QED BY <1>2, <1>3, <2>1 DEF Starts, CommunityTypeOK
<1>4. ASSUME NEW a \in Asks, NEW here \in AskStates, NEW there \in AskStates,
             Moves(a, here, there)
      PROVE  ask' \in [Asks -> [pc : {"new"}] \cup Begun]
  <2>1. ask'[a] \in Begun
    BY <1>4, AsksFollow
  <2> QED BY <1>2, <1>4, <2>1 DEF Moves
<1>5. ASSUME NEW a \in Asks, NEW here \in AskStates, NEW t \in Nat, Has(a, here, t)
      PROVE  ask' \in [Asks -> [pc : {"new"}] \cup Begun]
  <2>1. ask'[a] \in Begun
    BY <1>5, AsksFollow
  <2> QED BY <1>2, <1>5, <2>1 DEF Has
<1>6. ASSUME NEW a \in Asks, Agree(a) PROVE CommunityTypeOK'
  <2>0. /\ Len(agreements) \in Nat
        /\ Active # {} => Max(Active) \in Nat
    BY ActiveIsFinite, LenProperties DEF CommunityTypeOK
  <2>a. {"looking", "getting", "creating", "failed"} \subseteq AskStates
    BY DEF AskStates, Agreeing
  <2>1. CASE LookUp(a) \/ GetAgreement(a)
    <3>1. UNCHANGED <<agreements, entries, added, met>>
      BY <1>6, <2>1 DEF LookUp, GetAgreement, Agree
    <3>2. ask' \in [Asks -> [pc : {"new"}] \cup Begun]
      <4>1. CASE Active = {}
        <5>1. Moves(a, "looking", "getting") \/ Moves(a, "getting", "creating")
          <6>1. Cardinality(Active) # 1
            BY <4>1, FS_EmptySet
          <6> QED BY <2>1, <4>1, <6>1 DEF LookUp, GetAgreement
        <5> QED BY <1>4, <2>a, <5>1
      <4>2. CASE Active # {}
        <5>1. \/ Has(a, "looking", Max(Active)) \/ Has(a, "getting", Max(Active))
              \/ Moves(a, "getting", "failed")
          BY <2>1, <4>2 DEF LookUp, GetAgreement
        <5> QED BY <1>4, <1>5, <2>0, <2>a, <4>2, <5>1
      <4> QED BY <4>1, <4>2
    <3> QED BY <3>1, <3>2 DEF CommunityTypeOK
  <2>2. CASE Make(a)
    <3>1. UNCHANGED <<entries, added, met>> /\ agreements' = Add(agreements)
      BY <1>6, <2>2 DEF Make, Agree
    <3>2. Has(a, "creating", Len(agreements) + 1) /\ Len(agreements) + 1 \in Nat
      BY <2>0, <2>2 DEF Make
    <3>3. ask' \in [Asks -> [pc : {"new"}] \cup Begun]
      BY <1>5, <2>a, <3>2
    <3> QED BY <3>1, <3>3, AgreementsFollow DEF CommunityTypeOK
  <2>3. CASE Accept(a)
    BY <1>4, <1>6, <2>3, AgreementsFollow
       DEF Accept, Agree, CommunityTypeOK, AskStates, Agreeing
  <2>4. ASSUME NEW m \in Members, NEW kind \in {"read", "accept"}, Ask(a, kind, m)
        PROVE  CommunityTypeOK'
    BY <1>3, <1>6, <2>4 DEF Ask, Agree, CommunityTypeOK, AskStates, Agreeing
  <2>5. ASSUME NEW m \in Members, NEW kind \in Kinds, TakePart(a, kind, m)
        PROVE  CommunityTypeOK'
    BY <1>3, <1>6, <2>5 DEF TakePart, Agree, CommunityTypeOK, AskStates, Partaking
  <2> QED BY <1>6, <2>1, <2>2, <2>3, <2>4, <2>5 DEF Agree
<1>7. ASSUME NEW a \in Asks, LookUpWork(a) PROVE CommunityTypeOK'
  BY <1>4, <1>7 DEF LookUpWork, CommunityTypeOK, AskStates, Partaking
<1>8. ASSUME NEW a \in Asks, InsertWork(a) \/ Write(a) \/ TakeBack(a) PROVE CommunityTypeOK'
  <2>1. ask' \in [Asks -> [pc : {"new"}] \cup Begun]
    BY <1>4, <1>8 DEF InsertWork, Write, TakeBack, AskStates, Partaking
  <2>2. ask[a] \in Begun
    BY <1>8, AsksFollow DEF InsertWork, Write, TakeBack, AskStates, Partaking
  <2>3. ask[a].by \in Members /\ ask[a].kind \in Kinds \cup {"read", "accept"}
    BY <2>2 DEF Begun
  <2>4. entries' \in [Members -> Nat]
    BY <1>8, <2>3 DEF InsertWork, Write, TakeBack, CommunityTypeOK
  <2>5. added' \in SUBSET (Members \X (Kinds \cup {"read", "accept"}))
    <3>1. added' \subseteq added \cup {<<ask[a].by, ask[a].kind>>, <<ask[a].by, "work">>}
      BY <1>8 DEF InsertWork, Write, TakeBack
    <3> QED BY <1>8, <2>3, <3>1 DEF CommunityTypeOK, Kinds
  <2> QED BY <1>8, <2>1, <2>4, <2>5 DEF InsertWork, Write, TakeBack, CommunityTypeOK
<1>9. CASE Replace
  BY <1>9, AgreementsFollow DEF Replace, CommunityTypeOK
<1>10. CASE UNCHANGED communityVars
  BY <1>10 DEF communityVars, CommunityTypeOK
<1> QED BY <1>6, <1>7, <1>8, <1>9, <1>10 DEF CommunityNext

LEMMA NextCommunityInv == CommunityInv /\ [CommunityNext]_communityVars => CommunityInv'
<1> SUFFICES ASSUME CommunityInv, [CommunityNext]_communityVars PROVE CommunityInv'
  OBVIOUS
<1>0. /\ CommunityTypeOK /\ CommunityTypeOK'
      /\ LetInAccepted /\ PairsAreMet /\ TwiceAfterMeeting
  BY NextCommunityTypeOK DEF CommunityInv
<1>a. ASSUME UNCHANGED agreements
      PROVE  Active' = Active /\ \A m \in Members : HasAccepted(m) => HasAccepted(m)'
  BY <1>a DEF Active, HasAccepted
<1>b. \A m \in Members : entries[m] \in Nat
  BY <1>0 DEF CommunityTypeOK
<1>1. ASSUME NEW a \in Asks, NEW m \in Members, NEW kind \in {"read", "accept"},
             Ask(a, kind, m), UNCHANGED <<entries, added>>
      PROVE  CommunityInv'
  <2>1. Starts(a, kind, m, "looking") /\ UNCHANGED agreements
    BY <1>1 DEF Ask
  <2>2. "looking" \in AskStates
    BY DEF AskStates, Agreeing
  <2>3. PairsAreMet' /\ \A kinds : MetOf(kinds) => MetOf(kinds)'
    BY <1>0, <2>1, <2>2, StartKeepsPairs
  <2>4. ask'[a].pc = "looking" /\ \A b \in Asks : b # a => ask'[b] = ask[b]
    BY <1>0, <2>1, <2>2, AsksFollow
  <2> QED BY <1>0, <1>1, <1>a, <1>b, <2>1, <2>3, <2>4, NothingMadeKeepsInv DEF Partaking
<1>2. ASSUME NEW a \in Asks, NEW m \in Members, NEW kind \in Kinds, TakePart(a, kind, m),
             UNCHANGED <<entries, added>>
      PROVE  CommunityInv'
  <2> DEFINE pc == IF Permitted(m) THEN "permitted" ELSE "failed"
  <2>1. Starts(a, kind, m, pc) /\ UNCHANGED agreements
    BY <1>2 DEF TakePart
  <2>2. pc \in AskStates /\ pc \notin Agreeing /\ pc # "inserting"
    BY DEF AskStates, Agreeing, Partaking
  <2>3. PairsAreMet' /\ \A kinds : MetOf(kinds) => MetOf(kinds)'
    BY <1>0, <2>1, <2>2, StartKeepsPairs
  <2>4. /\ ask'[a].pc = pc /\ ask'[a].by = m
        /\ \A b \in Asks : b # a => ask'[b] = ask[b]
    BY <1>0, <2>1, <2>2, AsksFollow
  <2>5. ask'[a].pc \in Partaking => HasAccepted(ask'[a].by)
    BY <1>0, <2>4, PermittedHasAccepted DEF Partaking
  <2> QED
    BY <1>0, <1>2, <1>a, <1>b, <2>1, <2>2, <2>3, <2>4, <2>5, NothingMadeKeepsInv DEF Agreeing
<1>3. ASSUME NEW a \in Asks, LookUp(a) \/ GetAgreement(a), UNCHANGED <<entries, added>>
      PROVE  CommunityInv'
  <2>1. /\ ask[a].pc \in {"looking", "getting"} /\ ask'[a].kind = ask[a].kind
        /\ ask'[a].pc \in {"getting", "creating", "failed", "accepting", "done"}
        /\ ask'[a].pc = "creating" => Active = {}
        /\ \A b \in Asks : b # a => ask'[b] = ask[b]
    <3>1. Active # {} => Max(Active) \in Nat
      BY <1>0, ActiveIsFinite, LenProperties DEF CommunityTypeOK
    <3>2. {"looking", "getting", "creating", "failed"} \subseteq AskStates
      BY DEF AskStates, Agreeing
    <3>3. CASE Active = {}
      <4>1. Moves(a, "looking", "getting") \/ Moves(a, "getting", "creating")
        <5>1. Cardinality(Active) # 1
          BY <3>3, FS_EmptySet
        <5> QED BY <1>3, <3>3, <5>1 DEF LookUp, GetAgreement
      <4> QED BY <1>0, <3>2, <3>3, <4>1, AsksFollow
    <3>4. CASE Active # {}
      <4>1. \/ Has(a, "looking", Max(Active)) \/ Has(a, "getting", Max(Active))
            \/ Moves(a, "getting", "failed")
        BY <1>3, <3>4 DEF LookUp, GetAgreement
      <4>2. ask'[a].pc \in {"failed", "accepting", "done"}
        BY <1>0, <3>1, <3>2, <3>4, <4>1, AsksFollow
      <4> QED BY <1>0, <3>1, <3>2, <3>4, <4>1, <4>2, AsksFollow
    <3> QED BY <3>3, <3>4
  <2>2. UNCHANGED <<agreements, met>>
    BY <1>3 DEF LookUp, GetAgreement
  <2>3. PairsAreMet' /\ \A kinds : MetOf(kinds) => MetOf(kinds)'
    BY <1>0, <2>1, <2>2, MoveKeepsPairs DEF InProgress, Agreeing
  <2> QED
    BY <1>0, <1>3, <1>a, <1>b, <2>1, <2>2, <2>3, NothingMadeKeepsInv DEF Partaking
<1>4. ASSUME NEW a \in Asks, Accept(a), UNCHANGED <<entries, added>> PROVE CommunityInv'
  <2>1. /\ ask[a].pc = "accepting" /\ ask'[a].kind = ask[a].kind /\ ask'[a].pc = "done"
        /\ \A b \in Asks : b # a => ask'[b] = ask[b]
    BY <1>0, <1>4, AsksFollow DEF Accept, AskStates, Agreeing
  <2>2. UNCHANGED met
    BY <1>4 DEF Accept
  <2>3. PairsAreMet' /\ \A kinds : MetOf(kinds) => MetOf(kinds)'
    BY <1>0, <2>1, <2>2, MoveKeepsPairs DEF InProgress, Agreeing
  <2>4. Active' = Active /\ \A m \in Members : HasAccepted(m) => HasAccepted(m)'
    BY <1>0, <1>4, AgreementsFollow
  <2> QED BY <1>0, <1>4, <1>b, <2>1, <2>3, <2>4, NothingMadeKeepsInv DEF Partaking
<1>5. ASSUME NEW a \in Asks, LookUpWork(a) PROVE CommunityInv'
  <2>1. /\ ask[a].pc = "permitted" /\ ask[a].kind = "work"
        /\ ask'[a].kind = ask[a].kind /\ ask'[a].by = ask[a].by
        /\ ask'[a].pc \in {"inserting", "done", "failed"}
        /\ ask'[a].pc = "inserting" => entries[ask[a].by] = 0
        /\ \A b \in Asks : b # a => ask'[b] = ask[b]
    <3>1. {"permitted", "inserting", "done", "failed"} \subseteq AskStates
      BY DEF AskStates, Partaking
    <3>2. /\ ask[a].kind = "work"
          /\ \/ Moves(a, "permitted", "inserting") /\ entries[ask[a].by] = 0
             \/ Moves(a, "permitted", "done") \/ Moves(a, "permitted", "failed")
      BY <1>5 DEF LookUpWork
    <3> QED BY <1>0, <3>1, <3>2, AsksFollow
  <2>2. UNCHANGED <<agreements, entries, added, met>>
    BY <1>5 DEF LookUpWork
  <2>3. PairsAreMet' /\ \A kinds : MetOf(kinds) => MetOf(kinds)'
    BY <1>0, <2>1, <2>2, MoveKeepsPairs DEF InProgress, Agreeing
  <2>4. ask'[a].pc \in Partaking => HasAccepted(ask'[a].by)
    BY <1>0, <2>1 DEF LetInAccepted, Partaking
  <2> QED BY <1>0, <1>a, <1>b, <2>1, <2>2, <2>3, <2>4, NothingMadeKeepsInv
<1>6. ASSUME NEW a \in Asks, Write(a) \/ TakeBack(a) PROVE CommunityInv'
  <2>1. /\ ask[a].pc = "permitted" /\ ask'[a].kind = ask[a].kind /\ ask'[a].pc = "done"
        /\ \A b \in Asks : b # a => ask'[b] = ask[b]
    <3>1. "permitted" \in AskStates /\ "done" \in AskStates
      BY DEF AskStates, Partaking
    <3>2. Moves(a, "permitted", "done")
      BY <1>6 DEF Write, TakeBack
    <3> QED BY <1>0, <3>1, <3>2, AsksFollow
  <2>2. UNCHANGED <<agreements, met>> /\ added' \subseteq added \cup {<<ask[a].by, ask[a].kind>>}
    BY <1>6 DEF Write, TakeBack
  <2>3. PairsAreMet' /\ \A kinds : MetOf(kinds) => MetOf(kinds)'
    BY <1>0, <2>1, <2>2, MoveKeepsPairs DEF InProgress, Agreeing
  <2>4. \A m \in Members : entries'[m] <= entries[m]
    <3>1. entries' = entries \/ entries' = [entries EXCEPT ![ask[a].by] = 0]
      BY <1>6 DEF Write, TakeBack
    <3>2. \A m \in Members : entries'[m] = entries[m] \/ entries'[m] = 0
      BY <1>0, <3>1 DEF CommunityTypeOK
    <3> QED BY <1>b, <3>2
  <2>5. HasAccepted(ask[a].by)
    BY <1>0, <2>1 DEF LetInAccepted, Partaking
  <2> QED BY <1>0, <1>a, <2>1, <2>2, <2>3, <2>4, <2>5, NothingMadeKeepsInv DEF Partaking
<1>7. ASSUME NEW a \in Asks, Make(a), UNCHANGED <<entries, added>> PROVE CommunityInv'
  <2> DEFINE n == Len(agreements)
  <2>1. n \in Nat /\ "creating" \in AskStates
    BY <1>0, LenProperties DEF CommunityTypeOK, AskStates, Agreeing
  <2>2. Has(a, "creating", n + 1) /\ agreements' = Add(agreements) /\ UNCHANGED met
    BY <1>7 DEF Make
  <2>3. /\ ask[a].pc = "creating" /\ ask'[a].kind = ask[a].kind
        /\ ask'[a].pc \in {"accepting", "done"}
        /\ \A b \in Asks : b # a => ask'[b] = ask[b]
    <3>1. n + 1 \in Nat
      BY <2>1
    <3> QED BY <1>0, <2>1, <2>2, <3>1, AsksFollow
  <2>4. PairsAreMet' /\ \A kinds : MetOf(kinds) => MetOf(kinds)'
    BY <1>0, <2>2, <2>3, MoveKeepsPairs DEF InProgress, Agreeing
  <2>5. /\ Active' = Active \cup {n + 1}
        /\ \A m \in Members : HasAccepted(m) => HasAccepted(m)'
    BY <1>0, <2>2, AgreementsFollow
  <2>6. LetInAccepted'
    <3>1. \A b \in Asks : ask'[b].pc \in Partaking =>
              ask'[b].by \in Members /\ HasAccepted(ask'[b].by)
      BY <1>0, <2>3 DEF LetInAccepted, Partaking, CommunityTypeOK, Begun
    <3>2. \A x \in added' : x[1] \in Members /\ HasAccepted(x[1])
      BY <1>0, <1>7 DEF LetInAccepted, CommunityTypeOK
    <3> QED BY <2>5, <3>1, <3>2 DEF LetInAccepted
  <2>7. Active # {} => MetOf({"read", "accept"})'
    BY <1>0, <2>3, <2>4 DEF TwiceAfterMeeting
  <2>8. Active = {} => Cardinality(Active') = 1
    BY <2>5, FS_Singleton
  <2>9. ASSUME NEW b \in Asks, ask'[b].pc = "creating" PROVE MetOf({"read", "accept"})'
    <3>1. b # a /\ InProgress(a) /\ InProgress(b)
      BY <2>3, <2>9 DEF InProgress
    <3>2. /\ {a, b} \in met' /\ ask'[a].kind \in {"read", "accept"}
          /\ ask'[b].kind \in {"read", "accept"}
      BY <1>0, <2>2, <2>3, <2>9, <3>1 DEF PairsAreMet, Agreeing
    <3> QED BY <3>2 DEF MetOf
  <2>10. /\ \A m \in Members : entries'[m] > 1 => MetOf({"work"})'
         /\ \A b \in Asks :
                ask'[b].pc = "inserting" /\ entries'[ask'[b].by] > 0 => MetOf({"work"})'
    BY <1>0, <1>7, <2>3, <2>4 DEF TwiceAfterMeeting
  <2>11. TwiceAfterMeeting'
    <3>1. Cardinality(Active') > 1 => MetOf({"read", "accept"})'
      BY <2>7, <2>8
    <3> QED BY <2>9, <2>10, <3>1 DEF TwiceAfterMeeting
  <2> QED BY <1>0, <2>4, <2>6, <2>11 DEF CommunityInv
<1>8. ASSUME NEW a \in Asks, InsertWork(a) PROVE CommunityInv'
  <2>1. "inserting" \in AskStates /\ "done" \in AskStates
    BY DEF AskStates, Partaking
  <2>2. /\ Moves(a, "inserting", "done") /\ UNCHANGED <<agreements, met>>
        /\ entries' = [entries EXCEPT ![ask[a].by] = @ + 1]
        /\ added' = added \cup {<<ask[a].by, "work">>}
    BY <1>8 DEF InsertWork
  <2>3. /\ ask[a].pc = "inserting" /\ ask[a].by \in Members
        /\ ask'[a].kind = ask[a].kind /\ ask'[a].pc = "done"
        /\ \A b \in Asks : b # a => ask'[b] = ask[b]
    BY <1>0, <2>1, <2>2, AsksFollow DEF Begun
  <2>4. PairsAreMet' /\ \A kinds : MetOf(kinds) => MetOf(kinds)'
    BY <1>0, <2>2, <2>3, MoveKeepsPairs DEF InProgress, Agreeing
  <2>5. Active' = Active /\ \A m \in Members : HasAccepted(m) => HasAccepted(m)'
    BY <1>a, <2>2
  <2>6. LetInAccepted'
    <3>1. HasAccepted(ask[a].by)
      BY <1>0, <2>3 DEF LetInAccepted, Partaking
    <3>2. \A b \in Asks : ask'[b].pc \in Partaking =>
              ask'[b].by \in Members /\ HasAccepted(ask'[b].by)
      BY <1>0, <2>3 DEF LetInAccepted, Partaking, CommunityTypeOK, Begun
    <3>3. \A x \in added' : x[1] \in Members /\ HasAccepted(x[1])
      BY <1>0, <2>2, <2>3, <3>1 DEF LetInAccepted, CommunityTypeOK
    <3> QED BY <2>5, <3>2, <3>3 DEF LetInAccepted
  <2>7. /\ entries'[ask[a].by] = entries[ask[a].by] + 1
        /\ \A m \in Members : m # ask[a].by => entries'[m] = entries[m]
    BY <1>0, <2>2, <2>3 DEF CommunityTypeOK
  <2>8. ASSUME NEW m \in Members, entries'[m] > 1 PROVE MetOf({"work"})'
    <3>1. CASE m = ask[a].by
      <4>1. entries[m] > 0
        BY <1>b, <2>7, <2>8, <3>1
      <4> QED BY <1>0, <2>3, <2>4, <3>1, <4>1 DEF TwiceAfterMeeting
    <3>2. CASE m # ask[a].by
      BY <1>0, <2>4, <2>7, <2>8, <3>2 DEF TwiceAfterMeeting
    <3> QED BY <3>1, <3>2
  <2>9. ASSUME NEW b \in Asks, ask'[b].pc = "inserting", entries'[ask'[b].by] > 0
        PROVE  MetOf({"work"})'
    <3>1. b # a /\ InProgress(a) /\ InProgress(b)
      BY <2>3, <2>9 DEF InProgress
    <3>2. {a, b} \in met' /\ ask'[a].kind = "work" /\ ask'[b].kind = "work"
      BY <1>0, <2>2, <2>3, <2>9, <3>1 DEF PairsAreMet
    <3> QED BY <3>2 DEF MetOf
  <2>10. TwiceAfterMeeting'
    BY <1>0, <2>3, <2>4, <2>5, <2>8, <2>9 DEF TwiceAfterMeeting
  <2> QED BY <1>0, <2>4, <2>6, <2>10 DEF CommunityInv
<1>9. ASSUME Replace PROVE CommunityInv'
  <2>1. UNCHANGED <<entries, added, ask, met>> /\ Active # {}
    BY <1>9 DEF Replace
  <2>2. /\ Active' = {Len(agreements) + 1}
        /\ \A m \in Members : HasAccepted(m) => HasAccepted(m)'
    BY <1>0, <1>9, AgreementsFollow DEF Replace
  <2>3. PairsAreMet' /\ \A kinds : MetOf(kinds) => MetOf(kinds)'
    BY <1>0, <2>1 DEF PairsAreMet, InProgress, MetOf
  <2>4. LetInAccepted'
    <3>1. \A b \in Asks : ask'[b].pc \in Partaking =>
              ask'[b].by \in Members /\ HasAccepted(ask'[b].by)
      BY <1>0, <2>1 DEF LetInAccepted, Partaking, CommunityTypeOK, Begun
    <3>2. \A x \in added' : x[1] \in Members /\ HasAccepted(x[1])
      BY <1>0, <2>1 DEF LetInAccepted, CommunityTypeOK
    <3> QED BY <2>2, <3>1, <3>2 DEF LetInAccepted
  <2>5. Cardinality(Active') = 1
    BY <2>2, FS_Singleton
  <2>6. TwiceAfterMeeting'
    BY <1>0, <2>1, <2>3, <2>5 DEF TwiceAfterMeeting
  <2> QED BY <1>0, <2>3, <2>4, <2>6 DEF CommunityInv
<1>10. CASE UNCHANGED communityVars
  BY <1>0, <1>10 DEF communityVars, CommunityInv, LetInAccepted, PairsAreMet, TwiceAfterMeeting,
     InProgress, MetOf, HasAccepted, Active
<1> QED
  BY <1>1, <1>2, <1>3, <1>4, <1>5, <1>6, <1>7, <1>8, <1>9, <1>10 DEF CommunityNext, Agree

\* Nobody has anything in a problem without having accepted an agreement of it, and an
\* agreement or a work entry is there twice only after two requests have overlapped, for
\* any number of members, requests and versions of the agreement.
THEOREM PartNeedsConsent == CommunitySpec => []PartFollowsConsent
<1>1. CommunityInv => PartFollowsConsent
  BY DEF CommunityInv, CommunityTypeOK, LetInAccepted, TwiceAfterMeeting, MetOf, HasAccepted,
     PartFollowsConsent, ParticipantHasAccepted, TwiceOnlyByOverlap
<1> QED
  BY <1>1, InitCommunityInv, NextCommunityInv, PTL DEF CommunitySpec

=============================================================================
