----------------------------- MODULE MCWebBridge -----------------------------
(* Two browsers: one that subscribes, and one that asks for the rest. *)
EXTENDS WebBridge

CONSTANTS a, b

Ask(path, sameOrigin, rightMethod, valid) ==
  [path |-> path, sameOrigin |-> sameOrigin,
   rightMethod |-> rightMethod, valid |-> valid]

Loads == {Ask("events", TRUE, TRUE, TRUE)}
Calls == {Ask("patch", TRUE, TRUE, TRUE), Ask("read", FALSE, TRUE, TRUE),
          Ask("static", FALSE, TRUE, TRUE)}

Asked == Loads \cup Calls
ByBrowser == [c \in Browsers |-> IF c = a THEN Loads ELSE Calls]
=============================================================================
