---------------------------- MODULE MCAcquisition ----------------------------
(* Instances of Acquisition for TLC.  The ambient sensors and the 1-Wire   *)
(* devices share only the time of the task, of which every duration is     *)
(* tried: they are on boards of their own.                                 *)
EXTENDS Acquisition

MCRoms == <<"a", "b">>

MCBoards ==
    {[ambients |-> 2, mux |-> TRUE, roms |-> {}],
     [ambients |-> 0, mux |-> FALSE, roms |-> {"a", "b"}],
     [ambients |-> 1, mux |-> FALSE, roms |-> {}]}
=============================================================================
