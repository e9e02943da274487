------------------------------- MODULE Voting -------------------------------
(***************************************************************************)
(* consensus/protocol.py: the protocols MajorityVote, ConfidenceWeighted    *)
(* and Hierarchical as functions of the list of votes, which grows vote by *)
(* vote here.  An agent may vote more than once.                           *)
(*                                                                         *)
(* Options are numbers, as ties go to the least name.  Confidences are     *)
(* multiples of some unit; ratios are compared by cross-multiplication.    *)
(***************************************************************************)
EXTENDS Naturals, Sequences, SequencesExt, FiniteSetsExt, Functions

CONSTANTS
  Voters,     \* agent ids
  Authority,  \* Hierarchical.authority_agent_id
  Options,    \* options: natural numbers, ordered as their names
  Confidences,\* confidences, in units of 1/Sure
  Sure,       \* the number of units of the confidence 1.0
  Protocols,  \* records: name, require_majority, min_ratio (a fraction <<p, q>>)
  MaxVotes    \* bound: the number of votes

\* VoteRecord.__post_init__ and the constructors of the protocols.
ASSUME VotingAssumption ==
  /\ Authority \in Voters
  /\ Options \subseteq Nat
  /\ Sure \in Nat
  /\ Confidences \subseteq 0..Sure
  /\ Protocols \subseteq
       [name: {"majority_vote"}, require_majority: BOOLEAN]
         \union [name: {"confidence_weighted"}, min_ratio: Nat \X (Nat \ {0})]
         \union [name: {"hierarchical"}]
  /\ \A p \in Protocols : p.name = "confidence_weighted" => p.min_ratio[1] <= p.min_ratio[2]

VARIABLES
  protocol,  \* the protocol in use
  votes      \* the votes that resolve() is given

votingVars == <<protocol, votes>>
-----------------------------------------------------------------------------
\* The places of the votes for an option.
For(list, o) == {i \in DOMAIN list : list[i].option = o}

Voted(list) == {list[i].option : i \in DOMAIN list}

Count(list, o) == Cardinality(For(list, o))

Weight(list, o) == SumFunctionOnSet([i \in DOMAIN list |-> list[i].confidence], For(list, o))

\* A tally gives every option that was voted for its votes, or their weight.
Counts(list) == [o \in Voted(list) |-> Count(list, o)]

TotalOf(tally) == SumFunction(tally)

\* Mutant of Winner: the options with the smallest tally win.
WinnerLeast(tally) ==
  Min({o \in DOMAIN tally : \A other \in DOMAIN tally : tally[other] >= tally[o]})

\* The options with the largest tally, and _tiebreak().
Winner(tally) ==
  Min({o \in DOMAIN tally : \A other \in DOMAIN tally : tally[other] <= tally[o]})

Outcome(winner, reached) == [winner |-> winner, reached |-> reached]

\* Mutant of IsMajority: half of the votes suffice.
IsMajorityHalf(count, total) == 2 * count >= total

\* The negation of agreement_ratio <= 0.5.
IsMajority(count, total) == 2 * count > total

\* MajorityVote.resolve()
MajorityVote(list, require_majority) ==
  LET w == Winner(Counts(list))
  IN  Outcome(w, ~require_majority \/ IsMajority(Count(list, w), Len(list)) \/ Len(list) = 1)

\* The weight_map of ConfidenceWeighted: votes are counted if no vote has any weight.
Tally(list) ==
  IF \A i \in DOMAIN list : list[i].confidence = 0
    THEN Counts(list) ELSE [o \in Voted(list) |-> Weight(list, o)]

\* ConfidenceWeighted.resolve()
ConfidenceWeighted(list, min_ratio) ==
  LET tally == Tally(list)
      w == Winner(tally)
  IN  Outcome(w, tally[w] * min_ratio[2] >= min_ratio[1] * TotalOf(tally))

\* The places of authority_votes, and authority_votes[-1].
AuthorityVotes(list) == {i \in DOMAIN list : list[i].agent = Authority}

Decisive(list) == list[Max(AuthorityVotes(list))].option

\* Hierarchical.resolve()
Hierarchical(list) ==
  IF AuthorityVotes(list) # {}
    THEN Outcome(Decisive(list), TRUE)
    ELSE MajorityVote(list, FALSE)

Resolve(list) ==
  CASE protocol.name = "majority_vote" -> MajorityVote(list, protocol.require_majority)
    [] protocol.name = "confidence_weighted" -> ConfidenceWeighted(list, protocol.min_ratio)
    [] protocol.name = "hierarchical" -> Hierarchical(list)
-----------------------------------------------------------------------------
VotingInit ==
  /\ protocol \in Protocols
  /\ votes = <<>>

Vote(agent, option, confidence) ==
  /\ Len(votes) < MaxVotes
  /\ votes' = Append(votes, [agent |-> agent, option |-> option, confidence |-> confidence])
  /\ UNCHANGED protocol

VotingNext ==
  \E agent \in Voters, option \in Options, confidence \in Confidences :
    Vote(agent, option, confidence)

VotingSpec == VotingInit /\ [][VotingNext]_votingVars
-----------------------------------------------------------------------------
\* A majority that is announced is one: no other option could have more than half, and
\* it is not announced exactly if no option has (one vote decides alone).  With weights,
\* somebody with the weight of the winner exists, also if all confidences are zero.
\* The authority's last word stands whatever the others vote.
OutcomeJustified ==
  votes # <<>> =>
    LET result == Resolve(votes)
        total == Len(votes)
    IN  /\ result.winner \in Voted(votes)
        /\ protocol.name = "majority_vote" /\ protocol.require_majority =>
             result.reached = (\/ \E o \in Options : 2 * Count(votes, o) > total
                               \/ total = 1)
        /\ protocol.name = "confidence_weighted" =>
             /\ protocol.min_ratio[1] = protocol.min_ratio[2] /\ result.reached =>
                  \A v \in Range(votes) : v.option = result.winner \/ v.confidence = 0
             /\ (\A o \in Voted(votes) : Weight(votes, o) = 0) =>
                  result.winner = Winner(Counts(votes))
        /\ protocol.name = "hierarchical" =>
             \A i \in 1..total :
               /\ votes[i].agent = Authority
               /\ \A j \in (i + 1)..total : votes[j].agent # Authority
               => result = Outcome(votes[i].option, TRUE)

\* One more vote for the winner never makes it lose, and takes no consensus away from
\* it, through ties, votes without confidence and the authority's own repeated votes.
SupportNeverHurts ==
  [][LET before == Resolve(votes)
         after == Resolve(votes')
     IN  votes # <<>> /\ Last(votes').option = before.winner =>
           /\ after.winner = before.winner
           /\ before.reached /\ Len(votes) > 1 => after.reached
    ]_votingVars
=============================================================================
