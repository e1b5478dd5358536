-------------------------- MODULE MC_RequestScope --------------------------
(* Two people on both surfaces, and a probe; every way to be configured. *)
EXTENDS RequestScope

Ask(surface, tool, bearer) == [surface |-> surface, tool |-> tool, bearer |-> bearer]

MCInputs ==
    {Ask("mcp", "read", "alice"), Ask("mcp", "create_event", NoBearer),
     Ask("openapi", "read", "bob"),
     Ask("probe", "readyz", NoBearer)}

Env(direct, id, password, broker, writes) ==
    [direct |-> direct, id |-> id, password |-> password, broker |-> broker,
     writes |-> writes, diag |-> FALSE]

MCEnvironments ==
    {Env(FALSE, FALSE, FALSE, TRUE, TRUE),
     [Env(FALSE, TRUE, TRUE, FALSE, FALSE) EXCEPT !.diag = TRUE],
     Env(TRUE, TRUE, TRUE, TRUE, TRUE),
     Env(TRUE, TRUE, FALSE, TRUE, FALSE), Env(TRUE, FALSE, FALSE, TRUE, FALSE)}
=============================================================================
