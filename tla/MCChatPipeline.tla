--------------------------- MODULE MCChatPipeline ---------------------------
(* Instances of ChatPipeline for TLC: answers that say one of two things,  *)
(* fail, save a memory, or change or forget the first entry.               *)
EXTENDS ChatPipeline, TLC

Says(reply, error, action, target) ==
  [reply |-> reply, error |-> error, action |-> action, target |-> target]

MCResults == {Says("r1", FALSE, "save", 0),
              Says("r1", TRUE, "none", 0), Says("r2", FALSE, "replace", 1),
              Says("r2", FALSE, "forget", 1)}
MCFewer   == {Says("r1", FALSE, "none", 0)}
=============================================================================
