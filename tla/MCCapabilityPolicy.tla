-------------------------- MODULE MCCapabilityPolicy --------------------------
EXTENDS CapabilityPolicy

Comment == [kind |-> "comment"]
End == [kind |-> "endblock"]

Block(profile, n) ==
  <<[kind |-> "block", type |-> "profile", profile |-> profile]>>
    \o [i \in 1 .. n |-> [kind |-> "grant", cap |-> i]] \o <<End>>

Assign(type, name, profile) ==
  [kind |-> "assign", type |-> type, name |-> name, profile |-> profile]

(* src/Config/Services/Capabilities.cfg, its eleven comments first: the    *)
(* blocks with the number of their grants, and the assignments.            *)
Profiles ==
  <<Block("standard", 4), Block("administrator", 9),
    Block("administrator.programmer", 12), Block("service.init", 3),
    Block("service.capability_manager", 9), Block("service.memory_manager", 3),
    Block("service.shell", 5), Block("service.login", 1),
    Block("kernel.bootstrap", 3)>>

Assignments ==
  <<Assign("user", "dave", "administrator.programmer"),
    Assign("service", "capsmgr", "service.capability_manager"),
    Assign("service", "memmgr", "service.memory_manager"),
    Assign("service", "shell", "service.shell"),
    Assign("service", "login", "service.login"),
    Assign("task", "init", "service.init"),
    Assign("task", "kernel", "kernel.bootstrap")>>

Shipped ==
  [i \in 1 .. 11 |-> Comment] \o FlattenSeq(Profiles) \o Assignments

MCPolicyFiles == {Shipped}
MCPrincipalTypes == {"user", "profile", "service", "task", "session"}
(* The load stores the ids and never looks at them.                        *)
MCProfileIds == [p \in {Profiles[b][1].profile : b \in DOMAIN Profiles} |-> 0]
=============================================================================
