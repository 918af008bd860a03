---------------------------- MODULE MCController ----------------------------
(* One caller runs the operations with barriers, the other one everything  *)
(* that can interfere with them or be interfered with.                     *)
EXTENDS Controller, TLC

CONSTANTS Long, Short, F, G

Write(s, v) == [setting |-> s, value |-> v]
Req(op, target, output, commands) ==
  [op |-> op, target |-> target, output |-> output, commands |-> commands]

MCRequestsOf ==
  Long :> { Req("generator", F, None, <<Write("amplitude", "low")>>),
            Req("generator", F, "on", <<>>),
            Req("generator", None, "off", <<Write("amplitude", "low")>>),
            Req("dmm", F, None, <<Write("amplitude", "low")>>),
            Req("dmm", G, None, <<>>),
            Req("writes", None, None, <<Write("probe", "x10"), Write("probe", "x1")>>) }
  @@
  Short :> { Req("writes", None, None, <<Write("function", G), Write("output", "on")>>),
             Req("channel", None, None, <<Write("scale", "low")>>),
             Req("average", None, None, <<Write("mode", "average")>>),
             Req("keepAwake", None, None, <<Write("mode", "average")>>),
             Req("controls", None, None, <<Query("scale"), Query("meter")>>) }

MCValues == [probe |-> {"x1", "x10"}, scale |-> {"low"},
             mode |-> {"sample", "average"}, amplitude |-> {"low"}]
MCFitting == {<<"x1", "low">>}
=============================================================================
