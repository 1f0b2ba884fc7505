--------------------------- MODULE MCBootstrap ---------------------------
(***************************************************************************)
(* Instances of Bootstrap for TLC.  Two failures of the installer are      *)
(* enough to interrupt a step, redo it and interrupt the redone step, with *)
(* one restart of the machine anywhere among them.                         *)
(***************************************************************************)
EXTENDS Bootstrap

Node(join, test, manual, offers, links) ==
  [joinMode |-> join, testMode |-> test, manual |-> manual, has |-> offers, linked |-> links]

Servers  == {"host", "releases", "leader"}
Complete == Servers \cup {"ziti", "bao", "schmutz-controller", "schmutz-gateway"}

\* Machines with everything: leaders and joining nodes, with and without the operator's help,
\* and a leader in test mode.
Provided == {Node(FALSE, FALSE, TRUE, Complete, FALSE), Node(FALSE, FALSE, FALSE, Complete, FALSE),
             Node(FALSE, TRUE, FALSE, Complete, FALSE),
             Node(TRUE, FALSE, TRUE, Complete, FALSE), Node(TRUE, FALSE, FALSE, Complete, FALSE)}

\* Machines whose programs are those that download leaves: a leader, one in test mode, which
\* gets no bao, and a joining node, which gets no gateway.
Linked == {Node(FALSE, FALSE, FALSE, Servers, TRUE), Node(FALSE, TRUE, FALSE, Servers, TRUE),
           Node(FALSE, TRUE, FALSE, Servers \cup {"bao"}, TRUE), Node(TRUE, FALSE, TRUE, Servers, TRUE)}

\* Machines that lack something else: no ufw, no release server, nothing in /usr/local/bin,
\* no leader that admits the node.
Lacking == {Node(FALSE, TRUE, FALSE, Complete \ {"host"}, FALSE),
            Node(FALSE, FALSE, FALSE, Complete \ {"releases"}, FALSE),
            Node(FALSE, FALSE, FALSE, Servers, FALSE),
            Node(TRUE, FALSE, TRUE, Complete \ {"leader"}, FALSE)}

MCNodes  == Provided \cup Linked \cup Lacking
MCLeader == {Node(FALSE, FALSE, TRUE, Complete, FALSE)}
=============================================================================
