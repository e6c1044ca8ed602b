---------------------------- MODULE MCLearning ----------------------------
(* Five nodes, of which the last is Byzantine; two tensors of two weights  *)
(* with a counter between them, so that a chunk of three crosses both.     *)
EXTENDS Learning

MCTensors == << [numel |-> 2, tracked |-> FALSE],
                [numel |-> 1, tracked |-> TRUE],
                [numel |-> 2, tracked |-> FALSE] >>

\* Two models that are close, of which one does not fit the grid of its
\* quantization, and one that has gone astray.
MCModels == { << <<10, 11>>, <<7>>, <<14, 12>> >>,
              << <<11, 11>>, <<8>>, <<13, 12>> >>,
              << <<0, 0>>, <<9>>, <<0, 0>> >> }

MCNoise == {0}

\* Honest peers are interchangeable: one order of their models is enough.
InOrder ==
    phase \in {"load", "train"}
      \/ \A p, q \in 1..NNodes - 1 - NByzantine : p < q => model[p][1][1] <= model[q][1][1]
=============================================================================
