------------------------------ MODULE MCRuntime ------------------------------
(* Two threads use the runtime; and, as behaviours of their own, the parts   *)
(* behind its services, the plugin manager, the vendor layer and discovery,  *)
(* and the command line in front of it.                                      *)
EXTENDS Runtime, PluginManager, Vendors, CommandLine

PDep(n, opt)  == [name |-> n, min |-> 1, max |-> 1, optional |-> opt]
Offer(n, v, c, ds, f) == [name |-> n, ver |-> v, compat |-> c, deps |-> ds, file |-> f]

\* p and q may need one another, r needs q, which comes in two versions.
MCOffers ==
    {Offer("p", 1, 2, {PDep("q", TRUE)}, FALSE), Offer("q", 1, 1, {PDep("r", TRUE)}, TRUE),
     Offer("q", 2, 1, {}, TRUE), Offer("r", 1, 1, {PDep("p", FALSE)}, FALSE), Offer("r", 1, 3, {}, TRUE)}

MCHasFeature == [v \in VendorIds |-> IF v = "qualcomm" THEN {"Flash", "GPT"} ELSE {"Flash"}]
MCSpeaks     == [v \in VendorIds |-> IF v = "qualcomm" THEN {"Sahara", "Firehose"} ELSE {"MediaTekBROM"}]

Dev(p, n, v, m, h, c) == [path |-> p, name |-> n, vendor |-> v, mode |-> m, hint |-> h, connectable |-> c]
MCSpecs ==
    {Dev("usb1", "EDL", "Qualcomm", "EDL", "Sahara", TRUE), Dev("usb2", "EDL", "Qualcomm", "Firehose", "Firehose", TRUE),
     Dev("usb3", "Preloader", "MediaTek", "Preloader", "MediaTekBROM", FALSE),
     Dev("usb1", "Other", "UNISOC", "BROM", "UNISOCBootROM", TRUE)}

\* Commands on their own, good and bad; a script that names another, which
\* cancels, and goes on after a shutdown; one that names itself.
MCInvocations ==
    {<<>>, <<Word("flash"), Word("pkg"), Option("quiet")>>, <<Word("flash"), Word("pkg"), Option("dry-run"), Option("json")>>,
     <<Word("read"), Number(0), Word("x")>>, <<Word("verify"), Number(0), HexData(FALSE)>>,
     <<Word("package"), Word("info"), Word("pkg"), Option("xml")>>, <<Word("completion"), Word("fish")>>,
     <<Word("erase"), Number(0), BadOption("retry")>>, <<Word("script"), Word("all")>>, <<Word("script"), Word("self")>>,
     <<Word("script")>>, <<Word("script"), Word("none")>>}
MCTyped ==
    {Line(<<Word("connect"), Number(0)>>), Line(<<Word("flash"), Word("pkg"), Option("json")>>), Line(<<Word("cancel")>>),
     Line(<<Word("reboot")>>), Line(<<Word("shutdown")>>), Line(<<Word("backup"), Word("boot"), Word("out")>>),
     Line(<<Word("script"), Word("part")>>), Line(<<Word("monitor"), BadOption("timeout")>>)}
MCScripts ==
    [all  |-> <<Comment("#", <<Word("#"), Option("retry")>>), Line(<<Word("connect"), Number(1)>>), Line(<<Word("script"), Word("part")>>),
                Line(<<Word("help")>>), Line(<<Word("shutdown")>>), Line(<<Word("stats")>>), Line(<<Word("workflow"), Word("flash")>>)>>,
     part |-> <<Line(<<>>), Comment(";", <<Word(";")>>), Line(<<Word("cancel")>>), Line(<<Word("restore"), Word("boot"), Word("in")>>),
                Line(<<Word("job"), Word("j"), Word("boot"), Word("none")>>)>>,
     self |-> <<Line(<<Word("script"), Word("self")>>)>>]

MCInit == RInit /\ PInit /\ VInit /\ DInit /\ CliInit

MCNext ==
    \/ PInit /\ VInit /\ DInit /\ CliInit /\ RNext /\ UNCHANGED <<pvars, vvars, dvars, clivars>>
    \/ RInit /\ VInit /\ DInit /\ CliInit /\ PNext /\ UNCHANGED <<rvars, vvars, dvars, clivars>>
    \/ RInit /\ PInit /\ DInit /\ CliInit /\ VNext /\ UNCHANGED <<rvars, pvars, dvars, clivars>>
    \/ RInit /\ PInit /\ VInit /\ DInit /\ CliNext /\ UNCHANGED <<rvars, pvars, vvars, dvars>>
    \/ RInit /\ PInit /\ VInit /\ CliInit /\ DNext /\ UNCHANGED <<rvars, pvars, vvars, clivars>>
       /\ \/ detectors' = <<>> /\ negotiators' = <<>>   \* one part of the registry at a time
          \/ detectors' = <<>> /\ factories' = {}
          \/ negotiators' = <<>> /\ factories' = {}

\* No cycle of plugins is loaded and what a plugin registered goes with it unless
\* taking it out reports an error, the active vendor is one the runtime owns, and
\* discovery reports each device that is there, once per detector that sees it, and
\* chooses the negotiator that is surest of it.
ServicesAreSound == PluginsAreSound /\ VendorsAreSound /\ DiscoveryIsExact

MCSpec == MCInit /\ [][MCNext]_<<rvars, pvars, vvars, dvars, clivars>> /\ RFairness
=============================================================================
