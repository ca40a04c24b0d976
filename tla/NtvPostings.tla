---------------------------- MODULE NtvPostings ----------------------------
(***************************************************************************)
(* What an index promises, whatever happens between the hit cache and the  *)
(* files (the abstract specification of NtvIndCache): the postings of a    *)
(* word are the positions it was added at, in that order, and a search     *)
(* reads those of the last index that was saved, all of them.              *)
(***************************************************************************)
EXTENDS Naturals, SequencesExt

CONSTANT Rec                    \* the words and patterns

VARIABLES posting,              \* what has been added for each of them
          searchable            \* what a search reads

Postings == [Rec -> Seq(Nat)]

PostingsInit == posting \in Postings /\ searchable = posting

\* A position more for r, after those it had.
Add(r) ==
    /\ Len(posting'[r]) = Len(posting[r]) + 1
    /\ LET p == Last(posting'[r])
       IN  /\ posting[r] = <<>> \/ p > Last(posting[r])
           /\ posting' = [posting EXCEPT ![r] = Append(@, p)]
    /\ UNCHANGED searchable

Save == searchable' = posting /\ UNCHANGED posting

PostingsNext == (\E r \in Rec : Add(r)) \/ Save

PostingsSpec == PostingsInit /\ [][PostingsNext]_<<posting, searchable>>
=============================================================================
