---------------------------- MODULE CliqChannelMC ----------------------------
(* CliqChannel for TLC: what the assistant sends. *)
EXTENDS CliqChannel

MCJobs ==
  LET text(t) == [text |-> t, kind |-> "text"]
      label == [text |-> NoText, kind |-> "label"]
  IN {<<text("done"), text("hello"), label>>}
=============================================================================
