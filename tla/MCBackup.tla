------------------------------- MODULE MCBackup -------------------------------
(***************************************************************************)
(* Backup for TLC: the daemon and the command line.                        *)
(***************************************************************************)
EXTENDS Backup
CONSTANTS daemon, cli, bridges, graph, config

MCCli == {cli}
MCBoth == {daemon, cli}
MCFiles == {bridges, graph, config}
MCBrittle == {config}
=============================================================================
