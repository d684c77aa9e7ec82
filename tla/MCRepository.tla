---------------------------- MODULE MCRepository ----------------------------
(* Constants for model-checking Repository.                                *)
EXTENDS Repository, TLC

CONSTANTS f1, f2, a, b

MCForeign   == {f1, f2}
MCNames     == {a, b}
MCTemplates == {"consumer", "shell", "network"}

(* Both controller templates claim a request kind of their own.            *)
MCScaffold(n, t) == IF t = "consumer" THEN Fragment({n}, {})
                                      ELSE Fragment({}, {<<t, n>>})

Job(c, f, d, n, t) == [cmd |-> c, force |-> f, cwd |-> d, root |-> d,
                       name |-> n, template |-> t]
MCJobs ==
  {Job("wire", f, d, a, "shell") : f \in BOOLEAN, d \in {1, 2}}
    \cup {Job("deepseek", f, 2, a, "shell") : f \in BOOLEAN}
    \cup {Job("scaffold", TRUE, 2, a, "consumer"),
          Job("scaffold", TRUE, 2, b, "shell"),
          Job("scaffold", FALSE, 2, b, "shell"),
          Job("scaffold", FALSE, 2, b, "consumer"),
          Job("scaffold", FALSE, 1, b, "network")}
    \cup {Job(c, FALSE, 2, a, "shell") : c \in {"install", "revert"}}

Misplaced == [Listed(<<f1>>) EXCEPT !.elsewhere = TRUE]

(* The wiring commands alone.                                              *)
MCWirings == {j \in MCJobs : j.cmd = "wire"}

MCUserConfigs == {Listed(<<f2, "edited">>), Misplaced}

Plain ==
  [tenants |-> [n \in MCNames |-> IF n = a THEN MCScaffold(a, "shell") ELSE NoFile],
   projects |-> {a}, bridge |-> "absent", config |-> Bare("absent"),
   witness |-> "absent", plugin |-> [code |-> "absent", manifest |-> "absent"],
   npmrc |-> [there |-> FALSE, lines |-> <<"blank">>], substrate |-> "whole"]

Wirings ==
  {<<Bare("absent"), "absent">>,
   <<Bare("malformed"), "canonical">>,
   <<Bare("broken"), "older">>,
   <<Listed(<<f1, "older", f2>>), "older">>,
   <<Listed(<<"older", f1, "edited">>), "older">>,
   <<Listed(<<f1, f2>>), "canonical">>,
   <<Listed(<<f1, "canonical">>), "truncated">>}

MCStarts ==
  {[Plain EXCEPT !.config = w[1], !.witness = w[2],
                 !.bridge = IF w[2] = "absent" THEN "absent" ELSE "edited",
                 !.substrate = IF w[2] = "absent" THEN "absent" ELSE "whole"] :
     w \in Wirings}
    \cup {[Plain EXCEPT !.tenants = [n \in MCNames |-> NoFile], !.projects = ps] :
            ps \in {{}, {b}}}
    \cup {[Plain EXCEPT !.plugin.code = c, !.plugin.manifest = "own"] :
            c \in {"own", "edited"}}
    \cup {[Plain EXCEPT !.npmrc = [there |-> TRUE, lines |-> ls]] :
            ls \in {<<f1, "own", "blank", f2>>, <<"own">>, <<"blank">>}}

Symmetry == Permutations(Procs)
=============================================================================
