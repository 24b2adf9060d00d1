------------------------------- MODULE MCDaemon -------------------------------
(* Two clients, two mount points and two instances for the daemon.         *)
EXTENDS Daemon, TLC

CONSTANTS client1, client2, point1, point2, instance1, instance2

MCClients == {client1, client2}
MCMountPoints == {point1, point2}

===============================================================================
