----------------------------- MODULE Community ------------------------------
(***************************************************************************)
(* A problem of the community and the agreement its contributors accept    *)
(* (apps/community): who may take part, and what taking part leaves.       *)
(*                                                                         *)
(* The active agreement is made when it is first asked for, by a lookup    *)
(* and a get_or_create that nothing unique backs.  The endpoints that make *)
(* it and accept it take the newest active one; the permission takes the   *)
(* oldest, .first() without an order being by primary key.  Agreements are *)
(* numbered in that order here.                                            *)
(***************************************************************************)
EXTENDS Integers, Sequences, FiniteSets, FiniteSetsExt

CONSTANTS
    Members,
    Asks,            \* requests
    MaxAgreements    \* bound on the agreements of the problem

ASSUME CommunityAssumption == MaxAgreements \in Nat

\* What a member can add: ProblemWork, ProblemLike, and the rows that are only created
\* (artifacts, comments on either, likes of comments).
Kinds == {"work", "like", "comment"}

VARIABLES
    agreements,   \* sequence of [active, accepted]
    entries,      \* ProblemWork rows of each member
    added,        \* <<member, kind>>: what was added, and still is
    ask,          \* per request: [pc, kind, by, agreement]
    met           \* pairs of requests that were in progress at the same time

communityVars == <<agreements, entries, added, ask, met>>

CommunityInit ==
    /\ agreements = <<>>
    /\ entries = [m \in Members |-> 0]
    /\ added = {}
    /\ ask = [a \in Asks |-> [pc |-> "new"]]
    /\ met = {}

InProgress(a) == ask[a].pc \notin {"new", "done", "failed"}
Starts(a, kind, m, pc) ==
    /\ ask[a].pc = "new"
    /\ ask' = [ask EXCEPT ![a] = [pc |-> pc, kind |-> kind, by |-> m, agreement |-> 0]]
    /\ met' = met \cup {{a, b} : b \in {x \in Asks : InProgress(x)}}
Moves(a, here, there) == ask[a].pc = here /\ ask' = [ask EXCEPT ![a].pc = there]
Has(a, here, t) ==
    /\ ask[a].pc = here
    /\ ask' = [ask EXCEPT ![a] =
                  [@ EXCEPT !.agreement = t,
                            !.pc = IF ask[a].kind = "accept" THEN "accepting" ELSE "done"]]

Active == {t \in 1..Len(agreements) : agreements[t].active}

-----------------------------------------------------------------------------
(***************************************************************************)
(* ensure_active_agreement: for a new problem, a reader or one who accepts *)
(***************************************************************************)
Ask(a, kind, m) == Starts(a, kind, m, "looking") /\ UNCHANGED agreements

LookUp(a) ==
    /\ IF Active = {} THEN Moves(a, "looking", "getting") ELSE Has(a, "looking", Max(Active))
    /\ UNCHANGED <<agreements, met>>

\* The get of get_or_create, which raises if it finds several.
GetAgreement(a) ==
    /\ CASE Active = {} -> Moves(a, "getting", "creating")
         [] Cardinality(Active) = 1 -> Has(a, "getting", Max(Active))
         [] OTHER -> Moves(a, "getting", "failed")
    /\ UNCHANGED <<agreements, met>>

Add(t) == Append(t, [active |-> TRUE, accepted |-> {}])

Make(a) ==
    /\ Len(agreements) < MaxAgreements
    /\ agreements' = Add(agreements)
    /\ Has(a, "creating", Len(agreements) + 1)
    /\ UNCHANGED met

\* AgreementAcceptance, unique by user and agreement.
Accept(a) ==
    /\ Moves(a, "accepting", "done")
    /\ agreements' = [agreements EXCEPT ![ask[a].agreement].accepted = @ \cup {ask[a].by}]
    /\ UNCHANGED met

-----------------------------------------------------------------------------
(***************************************************************************)
(* The endpoints that need the agreement                                   *)
(***************************************************************************)
\* Mistake: a problem without an agreement is open to everybody.
PermittedWithout(m) == Active # {} => m \in agreements[Min(Active)].accepted

\* AgreementAcceptedForProblem.has_permission
Permitted(m) == Active # {} /\ m \in agreements[Min(Active)].accepted

TakePart(a, kind, m) ==
    /\ Starts(a, kind, m, IF Permitted(m) THEN "permitted" ELSE "failed")
    /\ UNCHANGED agreements

\* update_or_create of the work entry: one is updated, several are an error.
LookUpWork(a) ==
    /\ ask[a].pc = "permitted" /\ ask[a].kind = "work"
    /\ CASE entries[ask[a].by] = 0 -> Moves(a, "permitted", "inserting")
         [] entries[ask[a].by] = 1 -> Moves(a, "permitted", "done")
         [] OTHER -> Moves(a, "permitted", "failed")
    /\ UNCHANGED <<agreements, entries, added, met>>

InsertWork(a) ==
    /\ Moves(a, "inserting", "done")
    /\ entries' = [entries EXCEPT ![ask[a].by] = @ + 1]
    /\ added' = added \cup {<<ask[a].by, "work">>}
    /\ UNCHANGED <<agreements, met>>

\* get_or_create of a like, under its unique key; create of the others.
Write(a) ==
    /\ Moves(a, "permitted", "done")
    /\ ask[a].kind # "work"
    /\ added' = added \cup {<<ask[a].by, ask[a].kind>>}
    /\ UNCHANGED <<agreements, entries, met>>

\* DELETE of the work entries, or of a like.
TakeBack(a) ==
    /\ Moves(a, "permitted", "done")
    /\ ask[a].kind # "comment"
    /\ added' = added \ {<<ask[a].by, ask[a].kind>>}
    /\ entries' = IF ask[a].kind = "work" THEN [entries EXCEPT ![ask[a].by] = 0] ELSE entries
    /\ UNCHANGED <<agreements, met>>

\* An administrator replaces the agreement by a new version.
Replace ==
    /\ Active # {} /\ Len(agreements) < MaxAgreements
    /\ agreements' = Add([t \in 1..Len(agreements) |-> [agreements[t] EXCEPT !.active = FALSE]])
    /\ UNCHANGED <<entries, added, ask, met>>

Agree(a) ==
    /\ \/ LookUp(a) \/ GetAgreement(a) \/ Make(a) \/ Accept(a)
       \/ \E m \in Members, kind \in {"read", "accept"} : Ask(a, kind, m)
       \/ \E m \in Members, kind \in Kinds : TakePart(a, kind, m)
    /\ UNCHANGED <<entries, added>>

CommunityNext ==
    \/ \E a \in Asks :
          Agree(a) \/ LookUpWork(a) \/ InsertWork(a) \/ Write(a) \/ TakeBack(a)
    \/ Replace

-----------------------------------------------------------------------------
\* Whoever has something in a problem has accepted an agreement of that problem,
\* whatever was replaced or made twice since the permission was checked.
ParticipantHasAccepted ==
    \A x \in added : \E t \in 1..Len(agreements) : x[1] \in agreements[t].accepted

\* Two active agreements, or two work entries of a member, come only from requests
\* that overlapped.
TwiceOnlyByOverlap ==
    LET Overlapped(kinds) == \E pair \in met : \A a \in pair : ask[a].kind \in kinds
    IN /\ Cardinality(Active) > 1 => Overlapped({"read", "accept"})
       /\ (\E m \in Members : entries[m] > 1) => Overlapped({"work"})

\* Taking part follows consent: no step without an accepted agreement, and no agreement
\* or work entry twice unless two requests overlapped.
PartFollowsConsent == ParticipantHasAccepted /\ TwiceOnlyByOverlap

\* A member who was told "accepted" of an agreement that is still active may take part.
AcceptedMayTakePart ==
    \A a \in Asks :
        ask[a].pc = "done" /\ ask[a].kind = "accept" /\ ask[a].agreement \in Active
            => Permitted(ask[a].by)

=============================================================================
