---------------------------- MODULE MCChatAgent ----------------------------
(***************************************************************************)
(* Instances of ChatAgent.                                                 *)
(***************************************************************************)
EXTENDS ChatAgent

\* Tags whole, split and behind an empty line that is split, too.
MCChunks ==
  {<<"A">>, <<"G">>, <<":", "x">>, <<":", " ", "x", "n", "n", "G">>, <<"x", "n">>,
   <<"n", "A", ":">>}

\* A first answer of up to three chunks, and a second one.
MCMaxChunks == <<3, 1>>
MCOneAnswer == <<3>>
=============================================================================
