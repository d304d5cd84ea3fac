----------------------------- MODULE MCDiscordVoice -----------------------------
(* A small instance of DiscordVoice for TLC.                                *)
EXTENDS DiscordVoice
CONSTANTS a, r1
=============================================================================
