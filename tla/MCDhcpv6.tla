------------------------------ MODULE MCDhcpv6 ------------------------------
(* Values for TLC.  Addresses are from 20, ids from 50.                     *)
EXTENDS Dhcpv6

MCLeases ==
  <<[addr |-> 20, preferred |-> 90, valid |-> 91],
    [addr |-> 21, preferred |-> 92, valid |-> 92]>>
MCDns == <<28, 29>>

Addr(a) == Plain(Code.IaAddr, <<a, 0, 0>>)
Ia(id, opts) == Opt(Code.IaNa, <<id, 0, 0>>, opts)

MCTypes == {MessageType[t] : t \in {"Solicit", "Request", "Confirm", "Renew"}}

(* 39 and 200 are codes the source has no name for.                         *)
MCOptions ==
  {Plain(Code.ClientId, <<1, 1, 70, 71>>),
   Plain(Code.ServerId, DuidLl(ServerMac)), Plain(Code.ServerId, <<3, 1>>),
   Plain(Code.ElapsedTime, <<0>>),
   Plain(Code.RapidCommit, <<>>),
   Plain(Code.OptionRequest, <<39, Code.DnsServers>>),
   Plain(Code.OptionRequest, <<Code.DnsServers, Code.RapidCommit>>),
   Plain(200, <<3, 14>>),
   Ia(50, <<>>), Ia(51, <<Addr(20), Plain(Code.StatusCode, <<0, 2>>)>>),
   Ia(52, <<Ia(53, <<Addr(20), Addr(21)>>)>>),
   Ia(52, <<Ia(53, <<Addr(22)>>)>>),
   Opt(Code.IaTa, <<54>>,
       <<Opt(Code.IaAddr, <<23, 0, 0>>, <<Plain(200, <<1>>)>>)>>)}
=============================================================================
