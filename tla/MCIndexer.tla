------------------------------ MODULE MCIndexer ------------------------------
(***************************************************************************)
(* Small chains for the indexer.                                           *)
(***************************************************************************)
EXTENDS Indexer

CONSTANT p

Event(ledger, kind, topic) ==
    [ledger |-> ledger, player |-> p, kind |-> kind, topic |-> topic]

(* A registration and an approval in one ledger, of which the first build  *)
(* can decode only one, a milestone, and an approval of an unknown type.   *)
FourEvents ==
    <<Event(1, "registered", "alias"), Event(1, "approved", "known"),
      Event(2, "submitted", "known"), Event(3, "approved", "foreign")>>

MayBeUndecodable == {{1}, {2}}

(* A registration and an approval.                                         *)
TwoEvents == <<Event(1, "registered", "alias"), Event(2, "approved", "known")>>
AllDecodable == {{}}
=============================================================================
