---------------------------- MODULE WidgetPageMC ----------------------------
(* Small instances of WidgetPage for TLC. *)
EXTENDS WidgetPage
CONSTANTS inline, popover
=============================================================================
