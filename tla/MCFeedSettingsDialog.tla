------------------------ MODULE MCFeedSettingsDialog ------------------------
(* Instances of FeedSettingsDialog for TLC. *)
EXTENDS FeedSettingsDialog

MCTyped ==
    { [name |-> "", settings |-> "completed"], [name |-> "typed", settings |-> "completed"],
      [name |-> "typed", settings |-> "simulation"] }
=============================================================================
