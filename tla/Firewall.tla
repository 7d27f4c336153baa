------------------------------- MODULE Firewall -------------------------------
(***************************************************************************)
(* scripts/allowlist_firewall.sh, one action per group of commands that    *)
(* change the host's packet filter.  The script runs under set -e: any      *)
(* command may fail and end it where it stands.  Of the filter the model   *)
(* keeps whether it drops incoming traffic by default and the addresses    *)
(* it lets in on the script's ports.                                       *)
(*                                                                         *)
(* The function revert (line 127) is not modelled: every path above it     *)
(* exits, so nothing calls it; nor are the backup and the metadata, which  *)
(* only revert reads.                                                      *)
(***************************************************************************)
EXTENDS Naturals, FiniteSets

CONSTANTS Hosts,   \* addresses that may be given to the script
          MaxRuns  \* bound on the runs of the script

ASSUME RunsAssumption == MaxRuns \in Nat

VARIABLES
    tool,    \* the packet filter that is installed
    filter,  \* its state
    script,  \* where the script is
    mode,    \* MODE
    ips,     \* IPS
    todo,    \* the addresses its loop has yet to reach
    status,  \* the exit status of the last run
    runs     \* runs so far

firewallVars == <<tool, filter, script, mode, ips, todo, status, runs>>

TypeOK ==
    /\ tool \in {"ufw", "iptables", "none"}
    /\ filter \in [enforcing : BOOLEAN, allowed : SUBSET Hosts]
    /\ script \in {"idle", "reset", "policy", "allow", "enable", "status"}
    /\ mode \in {"apply", "revert"}
    /\ ips \in SUBSET Hosts /\ todo \in SUBSET ips
    /\ status \in 0..2
    /\ runs \in 0..MaxRuns

FirewallInit ==
    /\ tool \in {"ufw", "iptables", "none"}
    /\ filter = [enforcing |-> FALSE, allowed |-> {}]
    /\ script = "idle" /\ mode = "apply" /\ ips = {} /\ todo = {}
    /\ status = 0 /\ runs = 0

Exit(n) == script' = "idle" /\ status' = n

\* The arguments are read; without addresses, applying prints the usage.
Invoke(m, hosts) ==
    /\ script = "idle"
    /\ runs < MaxRuns
    /\ runs' = runs + 1
    /\ mode' = m /\ ips' = hosts /\ todo' = hosts
    /\ \/ m = "apply" /\ hosts = {} /\ Exit(1)
       \/ (m = "revert" \/ hosts # {}) /\ tool = "none" /\ Exit(2)
       \/ /\ m = "revert" \/ hosts # {}
          /\ tool # "none"
          /\ script' = IF tool = "ufw" THEN "reset" ELSE "policy"
          /\ UNCHANGED status
    /\ UNCHANGED <<tool, filter>>

\* Any command may fail.
Fail ==
    /\ script # "idle"
    /\ Exit(1)
    /\ UNCHANGED <<tool, filter, mode, ips, todo, runs>>
-----------------------------------------------------------------------------
(* UFW: reset switches the firewall off, and rules wait for enable.         *)

\* Mutant of UfwReset: the rules go, the firewall stays up.
UfwResetRules ==
    /\ script = "reset"
    /\ filter' = [filter EXCEPT !.allowed = {}]
    /\ script' = "allow"
    /\ UNCHANGED <<tool, mode, ips, todo, status, runs>>

UfwReset ==
    /\ script = "reset"
    /\ filter' = [enforcing |-> FALSE, allowed |-> {}]
    /\ script' = "allow"
    /\ UNCHANGED <<tool, mode, ips, todo, status, runs>>

UfwEnable ==
    /\ script = "enable"
    /\ tool = "ufw"
    /\ filter' = [filter EXCEPT !.enforcing = TRUE]
    /\ script' = "status"
    /\ UNCHANGED <<tool, mode, ips, todo, status, runs>>

\* The firewall is up; to show its rules may still fail the run.
UfwStatus ==
    /\ script = "status"
    /\ Exit(0)
    /\ UNCHANGED <<tool, filter, mode, ips, todo, runs>>
-----------------------------------------------------------------------------
(* iptables: each command takes effect at once, the default policy first.   *)

IptablesPolicy ==
    /\ script = "policy"
    /\ filter' = [filter EXCEPT !.enforcing = TRUE]
    /\ script' = "allow"
    /\ UNCHANGED <<tool, mode, ips, todo, status, runs>>

IptablesPersist ==
    /\ script = "enable"
    /\ tool = "iptables"
    /\ Exit(0)
    /\ UNCHANGED <<tool, filter, mode, ips, todo, runs>>
-----------------------------------------------------------------------------
\* Mutant of AllowHost: the loop is left after its first address.
AllowFirst ==
    /\ script = "allow"
    /\ \/ \E ip \in todo :
             /\ filter' = [filter EXCEPT !.allowed = @ \cup {ip}]
             /\ todo' = {}
             /\ UNCHANGED script
       \/ /\ todo = {}
          /\ script' = "enable"
          /\ UNCHANGED <<filter, todo>>
    /\ UNCHANGED <<tool, mode, ips, status, runs>>

\* One round of the loop over IPS, or its end.
AllowHost ==
    /\ script = "allow"
    /\ \/ \E ip \in todo :
             /\ filter' = [filter EXCEPT !.allowed = @ \cup {ip}]
             /\ todo' = todo \ {ip}
             /\ UNCHANGED script
       \/ /\ todo = {}
          /\ script' = "enable"
          /\ UNCHANGED <<filter, todo>>
    /\ UNCHANGED <<tool, mode, ips, status, runs>>

FirewallNext ==
    \/ \E m \in {"apply", "revert"}, hosts \in SUBSET Hosts : Invoke(m, hosts)
    \/ Fail \/ UfwReset \/ UfwEnable \/ UfwStatus
    \/ IptablesPolicy \/ IptablesPersist \/ AllowHost

FirewallSpec == FirewallInit /\ [][FirewallNext]_firewallVars
-----------------------------------------------------------------------------
\* allowlist_firewall.sh:4-9: a run that reports success drops incoming traffic
\* by default and has let every given address in, whatever earlier runs left
\* behind.  With UFW, which it resets, it lets no other address in; the iptables
\* chains are not flushed (line 81), and what an earlier run let in stays let in,
\* against lines 7-9, "allowing only the provided source IP addresses".
ProvidedReachable ==
    script = "idle" /\ runs > 0 /\ status = 0 /\ mode = "apply" =>
        /\ filter.enforcing
        /\ ips \subseteq filter.allowed
        /\ tool = "ufw" => filter.allowed = ips

\* allowlist_firewall.sh:43-69: with UFW the filter never changes while it is up
\* unless it comes up whole, wherever a run fails; with iptables it does.
NeverHalfApplied ==
    [][tool = "ufw" /\ filter' # filter /\ filter'.enforcing
         => filter'.allowed = ips]_firewallVars

\* allowlist_firewall.sh:15 and 28, "undo changes": a revert that reports
\* success leaves no default drop behind.
RevertUndoes ==
    script = "idle" /\ runs > 0 /\ status = 0 /\ mode = "revert" =>
        ~filter.enforcing
=============================================================================
