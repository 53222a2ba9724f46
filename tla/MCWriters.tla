------------------------------ MODULE MCWriters -------------------------------
(***************************************************************************)
(* The writers on a display of sixteen text rows, with three pages of two  *)
(* columns to clear, and a ROM of four commands: INIT of two parts,        *)
(* another of one, a character, and the scroll command with two rows.      *)
(***************************************************************************)
EXTENDS Writers

MCCommands ==
  << << <<0, 174>>, <<64, 1, 2>> >>,
     << <<0, 175>> >>,
     << <<64, 126>> >>,
     << <<0, 33, 176, 16>>, <<128, 0, 64, 0>>, <<128, 1, 64, 0>>,
        <<0, 32, 220, 0>> >> >>

MCCells == {<<0, 0>>, <<0, 3>>, <<2, 0>>, <<16, 1>>, <<1, 16>>}
MCLowerColumnAddresses == {5, 9}
===============================================================================
