---------------------------- MODULE MCIpsharkDev ----------------------------
(* A white list, a black list, and one that is refused.                      *)
EXTENDS IpsharkDev

NameList(wb, l) == [wb |-> wb, names |-> l]

MCLists ==
  { NameList("WHITE", <<"eth0">>), NameList("BLACK", <<"eth0", "lo">>),
    NameList("NONE", <<"lo">>) }

\* LOCAL_IN, LOCAL_OUT, FORWARD.
MCPaths == { <<"eth0", NoDev>>, <<NoDev, "lo">>, <<"eth0", "lo">> }
=============================================================================
