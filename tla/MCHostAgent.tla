--------------------------- MODULE MCHostAgent ---------------------------
(* Parameter sets for HostAgent: what the tests of a stack change from one  *)
(* update to the next.                                                      *)
EXTENDS HostAgent, TLC

CONSTANTS f1, f2, m1

Version7(minor) ==
  [major |-> "7", minor |-> minor, channel |-> "stable", pipeline |-> "",
   flavor |-> "datadog-agent"]

Base(minor, config, extra, files) ==
  [version |-> Version7(minor), apiKey |-> "key",
   config |-> [p \in {CoreConfig} \cup OtherConfig |-> config],
   extra |-> extra, files |-> files]

Plain(content) == [content |-> content, mode |-> None]
NoFiles == [f \in UserFile |-> None]
OneFile(content) == [NoFiles EXCEPT ![f1] = Plain(content)]
TwoFiles == [OneFile("b") EXCEPT ![f2] = [content |-> "b", mode |-> m1]]

MCParams ==
  {Base("50", "c1", "e", OneFile("a")),
   Base("50", "c2", "e", OneFile("a")),
   Base("51", "c2", "e", NoFiles),
   Base("50", "c1", "e", TwoFiles)}

(* Only what is merged into datadog.yaml changes (logs, tags, hostname).   *)
MCExtraParams ==
  {Base("50", "c1", "e", NoFiles), Base("50", "c1", "logs", NoFiles)}

MCFlavor == {"datadog-agent"}
=============================================================================
