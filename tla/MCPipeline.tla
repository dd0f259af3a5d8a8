----------------------------- MODULE MCPipeline -----------------------------
(***************************************************************************)
(* Command lines, modules and approval lines for Pipeline.                 *)
(***************************************************************************)
EXTENDS Pipeline, TLC

Args(command, ring, mode, sources, missing, max_age, outs) ==
    [command |-> command, ring |-> ring, mode |-> mode, sources |-> sources,
     missing |-> missing, max_age |-> max_age, outs |-> outs]

\* One option of every check.
Options == {"token", "wrong_pin", "root_signature", "wrong_root_pin", "nonce"}

MCArgSets ==
    {Args("analyze", "ring0", "require", s, {}, "ok", {"vcs"}) :
        s \in {{}, {"vcs"}}}
    \cup {Args("analyze", "ring0", "off", {"vcs"}, {}, "ok", {"verdict"}),
          Args("analyze", "ring-1", "require", {"classes"}, {}, "ok", {"vcs", "verdict"}),
          Args("analyze", "ring-2", "off", {}, {}, "ok", {"verdict", "proof"}),
          Args("attest-check", "ring-2", "off", {}, {}, "ok", {})}
    \cup {Args("attest-check", "ring-2", "off", {}, {o}, "ok", {}) : o \in Options}
    \cup {Args("attest-check", "ring-1", "off", {}, {}, a, {"proof"}) : a \in {"zero", "above i64"}}

\* The second id begins with a comment sign, as a function may be called so.
MCReadBack == [f |-> "f"] @@ ("#g" :> "") @@ [class_load |-> "class_load", class_store |-> "class_store"]

Condition(vc, class, answers) == [vc |-> vc, class |-> class, answers |-> answers]
MCConditions ==
    <<Condition("f", "class_load", {"proved", "violated", "gave_up"}),
      Condition("#g", "class_store", {"proved"})>>
=============================================================================
