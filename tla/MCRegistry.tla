----------------------------- MODULE MCRegistry -----------------------------
(* Small instances of Registry for TLC.                                    *)
EXTENDS Registry, TLC

CONSTANTS acme, bank, look, send, tidy

Offer(t, h) == [name |-> t, hint |-> h]

TwoPages == <<{Offer(send, "readOnly")}, {Offer(look, "destructive")}>>

\* As many pages as the cap; one tool gone, the other redescribed, and one page too many.
SmallListings == {TwoPages, <<{Offer(look, "none")}, {}, {Offer(tidy, "none")}>>}

SmallAnswers ==
  {[via |-> "none", body |-> <<>>], [via |-> "accepted", body |-> <<>>],
   [via |-> "json", body |-> <<"asked">>], [via |-> "json", body |-> <<"other">>],
   [via |-> "sse", body |-> <<"notice", "other", "asked">>],
   [via |-> "sse", body |-> <<"notice", "request", "asked">>]}

SmallDemo == {[name |-> look, writes |-> FALSE], [name |-> send, writes |-> TRUE]}

Symmetry == Permutations(Procs) \cup Permutations(Handlers) \cup Permutations(Keys)

=============================================================================
