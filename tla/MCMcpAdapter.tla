---------------------------- MODULE MCMcpAdapter ----------------------------
(* Instance of McpAdapter for TLC: two tasks, two of everything that is     *)
(* negotiated, and for every method a message of each kind it tells apart.  *)
EXTENDS McpAdapter, TLC

Msg(method, id, name, args) ==
    [NoRequest EXCEPT !.method = method, !.id = id, !.key = id, !.name = name, !.args = args]
Ask(method, name) == Msg(method, "9", name, "fit")
Bad(method, id)   == [Msg(method, id, "none", "fit") EXCEPT !.form = "bad"]
Init1(v, ts, rs, ps) ==
    [Ask("initialize", v) EXCEPT !.tools = ts, !.resources = rs, !.prompts = ps]

MCMessages ==
    {Init1("2024-11-05", {0, 1}, {0, 1}, {0}), Init1("2025-03-26", {1, 2}, {0}, {}),
     Msg("notifications/initialized", "missing", "none", "fit"),
     Ask("ping", "none"),
     Msg("notifications/cancelled", "missing", "k1", "fit"), Bad("notifications/cancelled", "missing"),
     Ask("logging/setLevel", "error"), Bad("logging/setLevel", "9"),
     Ask("tools/list", "none"),
     Msg("tools/call", "k1", "t1", "fit"), Msg("tools/call", "k2", "t1", "fit"),
     Msg("tools/call", "k2", "t2", "invalid"), Msg("tools/call", "k1", "t1", "unfit"),
     Ask("resources/list", "none"),
     Ask("resources/read", "u"), Ask("resources/read", "f"),
     Ask("resources/subscribe", "u"), Ask("resources/unsubscribe", "u"),
     Ask("prompts/list", "none"), Ask("prompts/get", "p1"), Ask("completion/complete", "p1"),
     Ask("completion/complete", "f"),
     Ask("roots/list", "none"), Bad("unparsable", "9")}

MCServes == [h1 |-> {"f"}, h2 |-> {"f", "u"}]
MCHolds  == [h1 |-> {"f"}, h2 |-> {"u"}]
MCWithin == [r1 |-> {"f"}]

Symmetry == Permutations(Tasks)
=============================================================================
