----------------------------- MODULE MCConsole ------------------------------
(* Small instances of Console for TLC.                                     *)
EXTENDS Console

CONSTANTS a, b

Down(flags, withFn, keys) == [flags |-> flags, fn |-> withFn, word |-> keys]

MCCharacters == {"r", "p", "s", ".", ";", "grave", "ctl"}
MCPrintable  == MCCharacters \ {"ctl"}
MCConfirm    == <<"r">>
MCCatalogs   == {<<a, b>>, <<b>>}

\* One key, or two that overlap, or Fn with one or more.
MCKeyStates == {
  Down({}, TRUE, <<"s">>),   Down({}, TRUE, <<"s", ".">>),   Down({}, TRUE, <<"grave", ";", ".">>),
  Down({"enter"}, FALSE, << >>), Down({"enter"}, FALSE, <<"r">>),
  Down({"backspace"}, FALSE, << >>), Down({"tab"}, FALSE, <<"ctl">>),
  Down({}, FALSE, <<"p">>),  Down({}, FALSE, <<"p", "r", "s">>) }
=============================================================================
