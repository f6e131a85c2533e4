----------------------------- MODULE MCSession -----------------------------
(***************************************************************************)
(* Session with two choices for each option that more than one place of    *)
(* the code reads or sets.                                                 *)
(***************************************************************************)
EXTENDS Session

Choices ==
    [o \in Options |->
       CASE o = "ability" -> {"Warp", "Cloak"}
         [] o = "weapon" -> {"Pistol", "Sniper"}
         [] o = "hosting" -> {"true", "false"}
         [] o = "username" -> {"player", "renamed"}
         [] o = "ip_addr" -> {"local", "remote"}
         [] o = "game_mode_file_name" -> GameModes]

Defaults ==
    [o \in Options |->
       CASE o = "ability" -> "Warp"
         [] o = "weapon" -> "Pistol"
         [] o = "hosting" -> "false"
         [] o = "username" -> "player"
         [] o = "ip_addr" -> "local"
         [] o = "game_mode_file_name" -> "deathmatch"]
=============================================================================
