-------------------------------- MODULE MCFiles --------------------------------
(* Names and directories, the bytes of files, and devices: three parts that share no state, *)
(* so that only one of them moves in a behaviour.                                           *)
EXTENDS Namespace, Volume, Devices, TLC

\* Names: one directory, one file, and paths of up to three characters and some longer ones
MCPaths == UNION {[1 .. n -> {"/", ".", "a", "d"}] : n \in 0 .. 3}
             \cup {<<"/", "a", "/", "a">>, <<"a", "/", ".", ".">>, <<".", ".", "/", "a">>, <<"/", "a", "/", ".", ".", "/", "d">>, <<"a", "/", "a", "/", "d">>,
                   <<"d", "/", "a", "/", "a">>, <<".", ".", "/", ".", ".", "/", ".", ".">>, <<"/", "/", "a", "/", "/", ".", "/">>}
Entry(kind, name, at) == [kind |-> kind, name |-> name, at |-> at]
MCTree == 2 :> <<Entry("label", <<"v">>, 0), Entry("t_dir", <<"a">>, 3), Entry("deleted", <<"d">>, 9),
                 Entry("t_regular", <<"d">>, 4), Entry("t_dir", <<"a">>, 4), Entry("end", <<>>, 0),
                 Entry("t_regular", <<"x">>, 4)>>
       @@ 3 :> <<Entry("dot", <<".">>, 3), Entry("dot", <<".", ".">>, 2), Entry("t_regular", <<"d">>, 4)>>
       @@ 4 :> <<Entry("deleted", <<"q">>, 0)>>
MCSpecial == <<<<"a">>>>
MCVolumes == {<<"a">>, <<"b">>}
MCDevices == {<<"a">>, <<"d">>}
MCDev == <<"d">>

\* Files: one of two clusters, and one whose chain is shorter than its size
MCTable == 2 :> 4 @@ 3 :> 0 @@ 4 :> 0 @@ 5 :> 0
MCFirstCluster == "long" :> 2 @@ "broken" :> 3
MCSize  == "long" :> 7 @@ "broken" :> 6

\* Devices: addresses of four bits, blocks of two bytes
MCEntries == [lba_start : {0, 1, 3, 8, 9, 15}, block_count : {0, 2, 4, 7, 9, 15}]
MCBootRecords == [block_count : {3, 6, 7}, reserved_blocks : {0, 1, 2}, fat_count : {0, 1, 2},
                  fat_size : {1, 2, 7, 15}, cluster_size : {0, 1, 2}, root_cluster : 0 .. 3]

MCInit == NameInit /\ VolumeInit /\ DeviceInit
MCNext ==
  \/ VolumeInit /\ DeviceInit /\ NameNext   /\ UNCHANGED <<volumeVars, deviceVars>>
  \/ NameInit   /\ DeviceInit /\ VolumeNext /\ UNCHANGED <<spaceVars, deviceVars>>
  \/ NameInit   /\ VolumeInit /\ handle = UNSET /\ DiskNext    /\ UNCHANGED <<spaceVars, volumeVars>>
  \/ NameInit   /\ VolumeInit /\ max_lba = UNSET /\ SpecialNext /\ UNCHANGED <<spaceVars, volumeVars>>
MCSpec == MCInit /\ [][MCNext]_<<spaceVars, volumeVars, deviceVars>>
================================================================================
