---------------------------- MODULE MCProviderCli ----------------------------
(* Instance of ProviderCli for TLC: the file of a command that died, the    *)
(* one of the next, and a third that reads what both have left.             *)
EXTENDS ProviderCli

=============================================================================
