--------------------------- MODULE MCMessageStore ---------------------------
(* Instances of MessageStore: three messages in two batches that share one, *)
(* and one of which repeats a message.                                     *)
EXTENDS MessageStore

CONSTANTS a, b, c

MCBatches == {<<a, b>>, <<b, c, b>>}

=============================================================================
