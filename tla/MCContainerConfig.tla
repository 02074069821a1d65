------------------------- MODULE MCContainerConfig --------------------------
(***************************************************************************)
(* Tasks for ContainerConfig: each varies one part of a plain task over    *)
(* the cases the code tells apart, in sequences long enough to repeat.     *)
(***************************************************************************)
EXTENDS ContainerConfig

Seqs(S, n) == UNION {[1..k -> S] : k \in 0..n}

Plain ==
    [image |-> <<"img", "1.0">>, force |-> FALSE, params |-> <<>>, ports |-> <<>>,
     vars |-> <<Var("TASK_HOST", "host1")>>, volumes |-> <<>>, network |-> "BRIDGE",
     resources |-> <<>>]

ImageTasks ==
    {[Plain EXCEPT !.image = i, !.force = f, !.network = n] :
        i \in {<<"img">>, <<"img", "1.0">>, <<"registry", "5000/img", "1.0">>},
        f \in BOOLEAN, n \in {"HOST", "NONE", "USER"}}

Param(k, n, v, eq) == [key |-> k, name |-> n, value |-> v, eq |-> eq]

LabelTasks ==
    {[Plain EXCEPT !.params = ps] :
        ps \in Seqs({Param("label", "SidecarDiscover", v, TRUE) : v \in {"true", "false"}}
                      \cup {Param("label", "ServiceName", "svc", TRUE),
                            Param("label", "Environment", "", FALSE),
                            Param("label", ShellCommand, "run", TRUE)}, 3)}

EnvTasks ==
    {[Plain EXCEPT !.params = ps, !.vars = vs] :
        ps \in Seqs({Param("env", "A", v, TRUE) : v \in {"a", "path"}}
                      \cup {Param("env", "B", "", FALSE), Param("cap-add", "", "cap", FALSE),
                            Param("volume-driver", "", "nfs", FALSE)}, 3),
        vs \in {<<>>, <<Var("TASK_HOST", ""), Var("C", "path")>>}}

PortTasks ==
    {[Plain EXCEPT !.ports = ms] :
        ms \in Seqs([container : {0, 80}, host : {0, 8001, 8002},
                     protocols : {<<"">>, <<"udp">>, <<"udp", "">>, <<"tcp", "udp">>}], 2)}

LimitTasks ==
    {[Plain EXCEPT !.resources = rs, !.volumes = vs] :
        rs \in Seqs({[name |-> "cpus", value |-> v] : v \in {0, 1, 50, 400, 500}}
                      \cup {[name |-> "mem", value |-> v] : v \in {0, 1600}}, 2),
        vs \in Seqs([host : {"h"}, container : {"c"}, mode : {"", "RO"}], 1)}

AllTasks == ImageTasks \cup LabelTasks \cup EnvTasks \cup PortTasks \cup LimitTasks

Off == [forceCpu |-> FALSE, forceMemory |-> FALSE, useShares |-> FALSE,
        seed |-> FALSE, awsRole |-> FALSE]

AllSettings ==
    {Off, [Off EXCEPT !.forceCpu = TRUE, !.forceMemory = TRUE],
     [Off EXCEPT !.forceCpu = TRUE, !.useShares = TRUE],
     [Off EXCEPT !.seed = TRUE, !.awsRole = TRUE]}

=============================================================================
