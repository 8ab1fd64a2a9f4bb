------------------------ MODULE MCCapabilitiesService ------------------------
EXTENDS CapabilitiesService

Block(type, profile) == [kind |-> "block", type |-> type, profile |-> profile]
AllowCap(cap) == [kind |-> "grant", cap |-> cap]
Assign(type, name, profile) ==
  [kind |-> "assign", type |-> type, name |-> name, profile |-> profile]
End == [kind |-> "endblock"]
Comment == [kind |-> "comment"]
Malformed == [kind |-> "malformed"]

Start == AllowCap("service start")
Import == AllowCap("service bootstrap.import")
Query == AllowCap("capability query")

InitBlock == <<Block("profile", "service.init"), Start, Import, Query, End>>
InitAssigned == <<Assign("task", "init", "service.init")>>
PlainFile ==
  InitBlock \o <<Block("user", "standard"), AllowCap("session login"), End,
                Assign("user", "root", "standard")>> \o InitAssigned

MCPolicyFiles ==
  { <<>>, PlainFile, InitBlock, InitAssigned,
    (* the shipped file begins with comments *)
    <<Comment>> \o PlainFile,
    InitBlock \o <<Comment>> \o InitAssigned,
    (* a profile too many, an assignment too many *)
    InitBlock \o <<Block("user", "a"), End, Block("user", "b"), End>> \o InitAssigned,
    PlainFile \o <<Assign("task", "kernel", "service.init")>>,
    (* too many grants in a block, in the file *)
    <<Block("profile", "service.init"), Start, Import, Query, Query>>,
    InitBlock \o <<Block("user", "a"), Query, Query, End>> \o InitAssigned,
    (* a grant outside its block, unknown types and words *)
    InitBlock \o <<Start>>,
    <<Block("robot", "service.init")>>,
    InitBlock \o <<Assign("robot", "init", "service.init")>>,
    InitBlock \o InitAssigned \o <<Malformed>>,
    InitBlock \o InitAssigned \o <<Block("user", "a"), Query, Query>>,
    (* the first assignment and the first block count *)
    <<Block("profile", "service.init"), Start, End>> \o InitBlock \o InitAssigned,
    InitBlock \o <<Assign("task", "init", "standard")>> \o InitAssigned }

MCPrincipalTypes == {"user", "profile", "service", "task", "session"}
MCProfileIds == [p \in {"service.init", "standard", "a", "b"} |->
                   IF p = "service.init" THEN 5 ELSE 6]

MCConnectRequests ==
  { [nonce |-> 1, target |-> TRUE, flags |-> {"ANTI_REPLAY"}, mode |-> 2],
    [nonce |-> 1, target |-> TRUE, flags |-> {"SESSION_ESTABLISHED"}, mode |-> 1] }

MCConsoleLines ==
  { [name |-> name, password |-> "liberation", command |-> [name |-> "DIR", run |-> FALSE]] :
      name \in {"", "root"} }

MCAccessRequests ==
  { [type |-> "task", id |-> 0, name |-> "init", cap |-> "service start"],
    [type |-> "service", id |-> 5, name |-> "shell", cap |-> "capability query"] }

MCGrantRequests ==
  { [type |-> "service", id |-> 1, cap |-> "capability query",
     authoriser |-> "SERVICE", parent |-> 0],
    [type |-> "service", id |-> 1, cap |-> "capability query",
     authoriser |-> "DELEGATED", parent |-> 0],
    [type |-> "profile", id |-> 5, cap |-> "memory query",
     authoriser |-> "KERNEL", parent |-> 0] }
=============================================================================
