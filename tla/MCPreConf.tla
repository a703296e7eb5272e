----------------------------- MODULE MCPreConf -----------------------------
(* Values of the constants of PreConf that a configuration cannot write.   *)
EXTENDS PreConf, SequencesExt

MCTxs == <<1, 2, 3>>

\* Every extrinsic of a proposed block is in the end published.
BlockPublished ==
  main = "proposed" ~> (queue = <<>> /\ FlattenSeq([i \in DOMAIN published |->
                                                     published[i].txs]) = block)
=============================================================================
