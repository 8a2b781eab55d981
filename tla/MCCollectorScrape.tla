------------------------- MODULE MCCollectorScrape --------------------------
EXTENDS CollectorScrape

(* Live sessions: three encoders, and the search between them in the listing. *)

MCPids == <<"11", "12", "20", "31">>
Encoder(stream) == <<<<"opt", "uiza-ffmpeg">>, <<"-i">>, <<"rtmp:", "localhost", "live", stream>>>>
MCCmdline ==
  [p \in {"11", "12", "31"} |->
     CASE p = "11" -> Encoder("live_a")
       [] p = "12" -> Encoder("live_b")
       [] p = "31" -> Encoder("live_c")]

(* The host: a disk, an interface and a file system that may come and go, next *)
(* to partitions, pseudo file systems and names that hold the patterns.        *)

MCThings == {<<"vd", "b">>, <<"eth", "1">>, <<"/dev/", "vdb">>}
MCDiskNames == <<<<"loop", "0">>, <<"sd", "a">>, <<"sd", "a", "1">>, <<"vd", "b">>>>
MCIfNames == <<<<"l", "o">>, <<"eth", "1">>, <<"eth", "0">>>>
MCMounts ==
  <<[device |-> <<"proc">>, mount |-> <<"/proc">>, type |-> <<"proc">>, options |-> <<"rw">>],
    [device |-> <<"/dev/", "sda">>, mount |-> <<"/">>, type |-> <<"ext4">>, options |-> <<"rw">>],
    [device |-> <<"/dev/", "vdb">>, mount |-> <<"/data">>, type |-> <<"xfs">>,
     options |-> <<"ro">>],
    [device |-> <<"tmp">>, mount |-> <<"/dev", "shm">>, type |-> <<"tmpfs">>,
     options |-> <<"rw">>]>>
MCCpus == <<<<"cpu">>, <<"cpu", "0">>, <<"cpu", "1">>>>
MCMemKeys ==
  <<[raw |-> <<"MemTotal", ":">>, label |-> <<"MemTotal">>],
    [raw |-> <<"Active", "(", "anon", ")", ":">>, label |-> <<"Active", "_", "anon">>]>>
MCVmKeys == <<<<"nr_free">>, <<"pgpg", "in">>, <<"pg", "maj", "fault">>, <<"oom_kill">>>>
MCProtocols ==
  [netstat |-> <<[proto |-> "TcpExt", names |-> <<<<"Syncookies", "Sent">>, <<"TCPTimeouts">>,
                                                  <<"Listen", "Drops">>>>],
                 [proto |-> "IpExt", names |-> <<<<"InNoRoutes">>, <<"InOctets">>,
                                                 <<"OutOctets">>>>]>>,
   snmp |-> <<[proto |-> "Ip", names |-> <<<<"Forwarding">>, <<"DefaultTTL">>>>],
              [proto |-> "Tcp", names |-> <<<<"RtoAlgorithm">>, <<"ActiveOpens">>,
                                            <<"InSegs">>>>]>>]
AllOk ==
  [f \in {"1/mounts", "mounts", "stat", "meminfo", "netstat", "snmp", "diskstats", "netdev",
          "vmstat"} |-> "ok"]
MCFates ==
  {AllOk, [AllOk EXCEPT !["1/mounts"] = "empty", !["mounts"] = "empty"],
   [AllOk EXCEPT !["1/mounts"] = "empty", !["stat"] = "unopened", !["netdev"] = "unopened",
                 !["snmp"] = "unopened"],
   [AllOk EXCEPT !["diskstats"] = "unopened"]}
=============================================================================
