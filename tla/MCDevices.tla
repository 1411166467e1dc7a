----------------------------- MODULE MCDevices -----------------------------
(* What is done to devices, each as behaviours of its own: the partition       *)
(* table (two tables tell an old copy from a new one; five operations with     *)
(* two faults reach a failed write, a recovery after it and a second           *)
(* failure), the sessions (one of two threads can cancel or search while the   *)
(* other works, and a call over all sessions has two to go over), the logs     *)
(* and measurements, the virtual device jobs are tried on and the vendor SDK.  *)
EXTENDS PartitionTable, DeviceManager, Observability, VirtualDevice, VendorSDK

\* Partitions that meet, that overlap and that end behind the store.
MCPartInfos == {[name |-> "a", offset |-> 0, size |-> 2], [name |-> "b", offset |-> 2, size |-> 1], [name |-> "c", offset |-> 2, size |-> 3]}
MCRules == {{}, {"failOpen", "failRead"}, {"failWrite", "failErase"}, {"timeoutOnRead", "timeoutOnWrite", "timeoutOnErase"},
            {"disconnectOnRead", "disconnectOnWrite"}, {"random", "failReset"}, {"corruptData"}}
MCBuffers == {<<>>, <<1>>, <<2, 3>>, <<1, 2, 3>>}

\* Registrations that depend on one another in chains and cycles of up to three,
\* one twice on the same, one on nothing that there is; batches with the same
\* name twice, with no name and without a type.
Reg(k, n, d) == [kind |-> k, name |-> n, typed |-> TRUE, deps |-> d]
V == <<"vendor", "a">>
P == <<"protocol", "a">>
T == <<"transport", "t">>
MCRegistrations ==
    {<<Reg("vendor", "a", d)>> : d \in {<<>>, <<V>>, <<P>>, <<T>>, <<P, P, T>>}}
        \cup {<<Reg("protocol", "a", d)>> : d \in {<<>>, <<V>>, <<T>>, <<<<"", "a">>, V, <<"", "a">>>>}}
        \cup {<<Reg("transport", "t", d)>> : d \in {<<>>, <<P>>, <<V, V>>}}
        \cup {<<Reg("protocol", "", <<V>>), Reg("protocol", "", <<>>)>>, <<[Reg("protocol", "a", <<>>) EXCEPT !.typed = FALSE]>>}

\* Versions with parts up to and past what an int and a uint32_t hold.
MCVersionTexts ==
    {[parts |-> <<1, x, y>>, pre |-> p, build |-> b] : x \in {0, 2, 5, 9}, y \in {0, 3, -1}, p \in {<<>>, <<3>>, <<3, 1>>}, b \in {<<>>, <<1, 2>>}}
        \cup {[parts |-> s, pre |-> <<>>, build |-> <<>>] : s \in {<<>>, <<1>>, <<1, 2, 0, 1>>}}

Line(c) == [class |-> TRUE, name |-> c]
MCHeaderSets == {<<>>, <<Line("A")>>, <<Line("B"), Line("A")>>}

\* The one initial disk from which the other machines move.
WholeDisk ==
    LET t == CHOOSE x \in Tables : TRUE
    IN  [mbr |-> TRUE, ph |-> Header(t, "pe"), bh |-> Header(t, "be"), pe |-> t, be |-> t]
Parked == disk = WholeDisk /\ ~devOpen /\ Init

MCVars == <<vars, dvars, ovars, vdvars, sdkvars>>

MCNext ==
    \/ DInit /\ OInit /\ VInit /\ SInit /\ Next /\ UNCHANGED <<dvars, ovars, vdvars, sdkvars>>
    \/ Parked /\ OInit /\ VInit /\ SInit /\ DNext /\ UNCHANGED <<vars, ovars, vdvars, sdkvars>>
    \/ Parked /\ DInit /\ VInit /\ SInit /\ ONext /\ UNCHANGED <<vars, dvars, vdvars, sdkvars>>
    \/ Parked /\ DInit /\ OInit /\ SInit /\ VNext /\ UNCHANGED <<vars, dvars, ovars, sdkvars>>
    \/ Parked /\ DInit /\ OInit /\ VInit /\ SNext /\ UNCHANGED <<vars, dvars, ovars, vdvars>>

\* What a developer relies on while working without a device: the logs and
\* measurements keep what they were given, the virtual device stores what was
\* written and nothing else, and the SDK's report, graph and comparisons hold.
ToolsAreExact == RecordsAreExact /\ DeviceIsFaithful /\ SdkIsExact

MCInit == Init /\ DInit /\ OInit /\ VInit /\ SInit

MCSpec == MCInit /\ [][MCNext]_MCVars
==============================================================================
