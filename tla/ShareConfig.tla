---------------------------- MODULE ShareConfig ----------------------------
(***************************************************************************)
(* How a VM gets its configuration.  `vmtainer restore` and `vmtainer      *)
(* clone` write .entrypoint and .vmconfig into the shared directory; the   *)
(* guest's init reads both through virtiofs, sets environment, host name   *)
(* and network from them, runs the entrypoint and powers off.  A restore   *)
(* has a directory of its own; the clones of one command, forked by one    *)
(* parent that waits for them, share one, and each of them rewrites the    *)
(* configuration with its own address when there is a network.             *)
(***************************************************************************)
EXTENDS Integers, Sequences, FiniteSetsExt

CONSTANTS N,         \* number of VMs
          Docs,      \* configuration files: sequences of entries
          MaxEnv,    \* variables a VmConfig holds
          BufLines,  \* lines of .vmconfig that fit init's buffer
          MaxOctet,  \* last valid value of an address byte
          Inherited  \* variables the kernel gives init

ASSUME ShareAssumption ==
  N \in Nat \ {0} /\ MaxEnv \in Nat /\ BufLines \in Nat /\ MaxOctet \in Nat

VARIABLES cmd,    \* "restore": N processes; "clone": one parent, N children
          doc,    \* the configuration file
          cfg,    \* the VmConfig parsed from it
          pc,     \* pc[p]: host process of VM p; 0 is the clone parent
          forked, \* children the parent has forked
          waited, \* wait() calls that returned
          ep,     \* ep[d]: .entrypoint of directory d, "empty" once truncated
          conf,   \* conf[d]: the lines of .vmconfig
          lost,   \* directories in which a file could not be opened
          over,   \* history: VMs whose files a sibling wrote after they had begun to
          tap,    \* tap[i]: VM i has its TAP
          gpc,    \* gpc[i]: where init of guest i is
          entry,  \* entry[i]: the entrypoint init of guest i has read
          guest   \* guest[i]: the settings it has read

dirVars == <<ep, conf, lost, over>>
hostVars == <<cmd, doc, cfg, pc, forked, waited, dirVars, tap>>
shareVars == <<hostVars, gpc, entry, guest>>

Vms == 1..N
Procs == 0..N

\* The directory process p shares with its guest.
Dir(p) == IF cmd = "clone" THEN 0 ELSE p

-----------------------------------------------------------------------------
(* The configuration, from the file to the lines init reads.               *)

\* An entry of the file: its section, its key, which is "ENV_" pre times and
\* then a name, its value, and the form in which the value is written: "plain",
\* "escaped" (with JSON escapes other than of a quote or a backslash), "long" (more
\* than the buffer takes) or the name of the key it spells; "longkey" is an entry
\* with a key longer than its buffer.
Section(d, name) == SelectSeq(d, LAMBDA e : e.sec = name)

\* parse_string(): a backslash is dropped and the character after it copied, so
\* that an escape becomes other text, and a full buffer ends the copy.
Copied(e) ==
  CASE e.form = "escaped" -> "mangled"
    [] e.form = "long" -> "cut"
    [] OTHER -> e.val

\* find_val() looks for the quoted key in the whole text: the first use of the
\* key in any section is found, and a value that spells it hides the key.
FirstOf(d, key, none) ==
  LET at == {k \in DOMAIN d : (d[k].pre = 0 /\ d[k].key = key) \/ d[k].form = key} IN
  IF at = {} \/ d[Min(at)].form = key THEN none ELSE Copied(d[Min(at)])

\* The variables of the env block, up to the first that does not fit its buffers:
\* parsing stops within it, and what follows is out of step with the quotes.  A
\* value that is cut is kept, a key is not.
InStep(env) ==
  LET stop == {k \in DOMAIN env : env[k].form \in {"long", "longkey"}}
      last == IF stop = {} THEN Len(env)
              ELSE IF env[Min(stop)].form = "long" THEN Min(stop) ELSE Min(stop) - 1
  IN  [k \in 1..last |-> [pre |-> env[k].pre, key |-> env[k].key, val |-> Copied(env[k])]]

NoAddr == [d |-> 0, cidr |-> FALSE]

\* parse_config(): the env block is read up to the capacity of VmConfig.
ParseConfig(d) ==
  LET net == Section(d, "net")  env == InStep(Section(d, "env")) IN
  [entry |-> FirstOf(d, "entrypoint", "none"),
   host |-> FirstOf(d, "hostname", "none"),
   net |-> net # <<>>,
   ip |-> FirstOf(net, "ip", NoAddr),
   gw |-> FirstOf(net, "gateway", "none"),
   env |-> SubSeq(env, 1, Min({MaxEnv, Len(env)}))]

\* An empty value is the same as none: find_val() and write_config_to_share()
\* look at its first byte.
ASSUME EntryAssumption == \A d \in Docs : ParseConfig(d).entry # "empty"

NoConfig == [entry |-> "none", host |-> "none", net |-> FALSE, ip |-> NoAddr,
             gw |-> "none", env |-> <<>>]

\* The address VM p is given: the last byte counts up over the clones, if the
\* configured address has a prefix length.  Each restore has a file of its own,
\* with an address of its own.
IpOf(p) ==
  IF cmd = "restore" THEN [cfg.ip EXCEPT !.d = @ + p - 1]
  ELSE IF p > 0 /\ cfg.ip.cidr THEN [cfg.ip EXCEPT !.d = @ + p - 1]
  ELSE cfg.ip

Line(pre, key, val) == [pre |-> pre, key |-> key, val |-> val]

\* The lines write_config_to_share() puts into .vmconfig: each variable twice.
Lines(p) ==
  (IF cfg.host = "none" THEN <<>> ELSE <<Line(0, "HOSTNAME", cfg.host)>>)
  \o (IF cfg.ip = NoAddr THEN <<>> ELSE <<Line(0, "NET_IP", IpOf(p))>>)
  \o (IF cfg.gw = "none" THEN <<>> ELSE <<Line(0, "NET_GW", cfg.gw)>>)
  \o (IF cfg.net THEN <<Line(0, "NET_MAC", p)>> ELSE <<>>)
  \o [k \in 1..(2 * Len(cfg.env)) |->
       LET e == cfg.env[(k + 1) \div 2] IN Line(e.pre + ((k + 1) % 2), e.key, e.val)]

\* setenv() of the key that is "ENV_" pre times and then the name key.
SetEnv(g, pre, key, val) ==
  [g EXCEPT !.env = {e \in @ : <<e[1], e[2]>> # <<pre, key>>} \cup {<<pre, key, val>>}]

\* Mutant: a variable named ENV_K does not set K.
ApplyLineOnce(g, line) ==
  LET key == line.key  val == line.val IN
  CASE line.pre = 0 /\ key = "HOSTNAME" -> [g EXCEPT !.host = val]
    [] line.pre = 0 /\ key = "NET_IP" -> [g EXCEPT !.ip = val]
    [] line.pre = 0 /\ key = "NET_GW" -> [g EXCEPT !.gw = val]
    [] OTHER -> SetEnv(g, line.pre, key, val)

\* One line in init: "export " and the outer quotes are dropped, HOSTNAME, NET_IP
\* and NET_GW are init's own keys, any other is an environment variable, and
\* ENV_K also sets K.
ApplyLine(g, line) ==
  LET key == line.key  val == line.val IN
  CASE line.pre = 0 /\ key = "HOSTNAME" -> [g EXCEPT !.host = val]
    [] line.pre = 0 /\ key = "NET_IP" -> [g EXCEPT !.ip = val]
    [] line.pre = 0 /\ key = "NET_GW" -> [g EXCEPT !.gw = val]
    [] line.pre > 0 -> SetEnv(SetEnv(g, line.pre, key, val), line.pre - 1, key, val)
    [] OTHER -> SetEnv(g, 0, key, val)

\* The variables of names that env does not set yet.
Missing(names, env) == {key \in names : \A e \in env : e[1] # 0 \/ e[2] # key}

\* What setenv() without overwriting adds.
Default(env) == {<<0, key, "default">> : key \in Missing({"PATH", "HOME", "TERM"}, env)}

Nothing == [host |-> "none", ip |-> NoAddr, gw |-> "none",
            env |-> {<<0, key, "kernel">> : key \in Inherited}]

ShareInit ==
  /\ cmd \in {"restore", "clone"}
  /\ doc \in Docs
  /\ cfg = NoConfig
  /\ pc = [p \in Procs |-> IF (p = 0) = (cmd = "clone") THEN "parse" ELSE "none"]
  /\ forked = 0 /\ waited = 0
  /\ \E old \in {"none", "old"} : ep = [d \in Procs |-> old]
  /\ conf = [d \in Procs |-> <<>>]
  /\ lost = {} /\ over = {}
  /\ tap = [i \in Vms |-> FALSE]
  /\ gpc = [i \in Vms |-> "off"]
  /\ entry = [i \in Vms |-> "none"]
  /\ guest = [i \in Vms |-> Nothing]

-----------------------------------------------------------------------------
(* The host processes.                                                     *)

Goto(p, next) == pc' = [pc EXCEPT ![p] = next]

\* The configuration file is parsed, or cannot be opened.
Parse(p) ==
  /\ pc[p] = "parse"
  /\ \/ cfg' = ParseConfig(doc) /\ Goto(p, "entry")
     \/ Goto(p, IF p = 0 THEN "error" ELSE "exit") /\ UNCHANGED cfg
  /\ UNCHANGED <<cmd, doc, forked, waited, dirVars, tap, gpc, entry, guest>>

\* What follows write_config_to_share() in process p.
AfterConfig(p) == IF cmd = "restore" THEN "init" ELSE IF p = 0 THEN "load" ELSE "tap"

\* init of VM i has yet to read the files.
Unread(i) == pc[i] # "run" \/ gpc[i] \in {"mount", "entry", "conf"}

\* Process p writes a file of its directory, which others may have begun to write.
Overwrite(p) ==
  over' = over \cup {i \in Vms \ {p} : /\ Dir(i) = Dir(p) /\ Unread(i)
                                       /\ pc[i] \notin {"none", "parse", "init", "entry"}}

\* open(O_TRUNC) of .entrypoint, if one is configured.
TruncEntry(p) ==
  /\ pc[p] = "entry"
  /\ \/ cfg.entry = "none" /\ Goto(p, "conf") /\ UNCHANGED <<ep, lost, over>>
     \/ /\ cfg.entry # "none" /\ ep' = [ep EXCEPT ![Dir(p)] = "empty"] /\ Overwrite(p)
        /\ Goto(p, "write") /\ UNCHANGED lost
     \/ cfg.entry # "none" /\ lost' = lost \cup {Dir(p)} /\ Goto(p, "conf") /\ UNCHANGED <<ep, over>>
  /\ UNCHANGED <<cmd, doc, cfg, forked, waited, conf, tap, gpc, entry, guest>>

\* Mutant: only the newline is written.
WriteEntryBlank(p) ==
  /\ pc[p] = "write"
  /\ ep' = [ep EXCEPT ![Dir(p)] = "empty"] /\ Overwrite(p)
  /\ Goto(p, "conf")
  /\ UNCHANGED <<cmd, doc, cfg, forked, waited, conf, lost, tap, gpc, entry, guest>>

WriteEntry(p) ==
  /\ pc[p] = "write"
  /\ ep' = [ep EXCEPT ![Dir(p)] = cfg.entry] /\ Overwrite(p)
  /\ Goto(p, "conf")
  /\ UNCHANGED <<cmd, doc, cfg, forked, waited, conf, lost, tap, gpc, entry, guest>>

\* fopen("w") of .vmconfig truncates; the lines reach the file at fclose().
TruncConf(p) ==
  /\ pc[p] = "conf"
  /\ \/ conf' = [conf EXCEPT ![Dir(p)] = <<>>] /\ Overwrite(p) /\ Goto(p, "lines") /\ UNCHANGED lost
     \/ lost' = lost \cup {Dir(p)} /\ Goto(p, AfterConfig(p)) /\ UNCHANGED <<conf, over>>
  /\ UNCHANGED <<cmd, doc, cfg, forked, waited, ep, tap, gpc, entry, guest>>

WriteConf(p) ==
  /\ pc[p] = "lines"
  /\ conf' = [conf EXCEPT ![Dir(p)] = Lines(p)] /\ Overwrite(p)
  /\ Goto(p, AfterConfig(p))
  /\ UNCHANGED <<cmd, doc, cfg, forked, waited, ep, lost, tap, gpc, entry, guest>>

\* The parent of clones reads the snapshot, forks and waits.
LoadGolden ==
  /\ pc[0] = "load"
  /\ Goto(0, "fork") \/ Goto(0, "error")
  /\ UNCHANGED <<cmd, doc, cfg, forked, waited, dirVars, tap, gpc, entry, guest>>

Fork ==
  /\ pc[0] = "fork"
  /\ \/ /\ forked < N
        /\ forked' = forked + 1
        /\ pc' = [pc EXCEPT ![forked + 1] = "init"]
     \/ forked < N /\ Goto(0, "error") /\ UNCHANGED forked
     \/ forked = N /\ Goto(0, "wait") /\ UNCHANGED forked
  /\ UNCHANGED <<cmd, doc, cfg, waited, dirVars, tap, gpc, entry, guest>>

Exited == {i \in Vms : pc[i] = "exit"}

\* Mutant: the loop starts at one.
WaitOneLess ==
  /\ pc[0] = "wait"
  /\ \/ /\ waited < N - 1 /\ waited < Cardinality(Exited)
        /\ waited' = waited + 1
        /\ UNCHANGED pc
     \/ waited = N - 1 /\ Goto(0, "done") /\ UNCHANGED waited
  /\ UNCHANGED <<cmd, doc, cfg, forked, dirVars, tap, gpc, entry, guest>>

\* `count` calls of wait(), each of which takes one child that has exited.
Wait ==
  /\ pc[0] = "wait"
  /\ \/ /\ waited < N /\ waited < Cardinality(Exited)
        /\ waited' = waited + 1
        /\ UNCHANGED pc
     \/ waited = N /\ Goto(0, "done") /\ UNCHANGED waited
  /\ UNCHANGED <<cmd, doc, cfg, forked, dirVars, tap, gpc, entry, guest>>

\* init() and start_virtiofsd(), or failure; a clone with a network then
\* writes the configuration again, with its own address.
InitVm(i) ==
  /\ pc[i] = "init"
  /\ \/ Goto(i, IF cmd = "clone" /\ cfg.net THEN "entry" ELSE "tap")
     \/ Goto(i, "exit")
  /\ UNCHANGED <<cmd, doc, cfg, forked, waited, dirVars, tap, gpc, entry, guest>>

\* connect_tap(): its failure ends a restore, a clone goes on without.
ConnectTap(i) ==
  /\ pc[i] = "tap"
  /\ \/ tap' = [tap EXCEPT ![i] = cfg.net] /\ Goto(i, "restore")
     \/ cfg.net /\ Goto(i, IF cmd = "clone" THEN "restore" ELSE "exit") /\ UNCHANGED tap
  /\ UNCHANGED <<cmd, doc, cfg, forked, waited, dirVars, gpc, entry, guest>>

\* restore_snapshot(): the guest goes on after its signal, or the process ends.
RestoreVm(i) ==
  /\ pc[i] = "restore"
  /\ \/ Goto(i, "run") /\ gpc' = [gpc EXCEPT ![i] = "mount"]
     \/ Goto(i, "exit") /\ UNCHANGED gpc
  /\ UNCHANGED <<cmd, doc, cfg, forked, waited, dirVars, tap, entry, guest>>

\* run() returns once the guest has powered off.
EndVm(i) ==
  /\ pc[i] = "run" /\ gpc[i] = "off"
  /\ Goto(i, "exit")
  /\ UNCHANGED <<cmd, doc, cfg, forked, waited, dirVars, tap, gpc, entry, guest>>

-----------------------------------------------------------------------------
(* init in the guest.                                                      *)

GoGuest(i, next) == gpc' = [gpc EXCEPT ![i] = next]

MountShare(i) ==
  /\ gpc[i] = "mount"
  /\ GoGuest(i, "entry") \/ GoGuest(i, "halt")
  /\ UNCHANGED <<hostVars, entry, guest>>

\* Mutant: an empty file counts as an entrypoint.
ReadEntryEmpty(i) ==
  /\ gpc[i] = "entry"
  /\ entry' = [entry EXCEPT ![i] = ep[Dir(i)]]
  /\ GoGuest(i, "conf")
  /\ UNCHANGED <<hostVars, guest>>

ReadEntry(i) ==
  /\ gpc[i] = "entry"
  /\ entry' = [entry EXCEPT ![i] = IF ep[Dir(i)] = "empty" THEN "none" ELSE ep[Dir(i)]]
  /\ GoGuest(i, "conf")
  /\ UNCHANGED <<hostVars, guest>>

\* The lines one read() into init's buffer gets: all that fit and, if it ends in
\* the value of another, the part of that line.
Buffered(lines, part) ==
  IF Len(lines) <= BufLines THEN lines
  ELSE SubSeq(lines, 1, BufLines)
       \o (IF part THEN <<[lines[BufLines + 1] EXCEPT !.val = "cut"]>> ELSE <<>>)

\* They are applied in order.
ReadConf(i) ==
  /\ gpc[i] = "conf"
  /\ \E part \in BOOLEAN :
       LET lines == Buffered(conf[Dir(i)], part) IN
       guest' = [guest EXCEPT ![i] =
         MapThenFoldSet(LAMBDA line, g : ApplyLine(g, line), @, LAMBDA k : lines[k], Max, 1..Len(lines))]
  /\ GoGuest(i, "apply")
  /\ UNCHANGED <<hostVars, entry>>

\* Default variables, host name and network; an address inet_pton() refuses is
\* not set.  Without an entrypoint the guest halts, which does not end the VM.
Apply(i) ==
  /\ gpc[i] = "apply"
  /\ guest' = [guest EXCEPT ![i].ip = IF @.d > MaxOctet THEN NoAddr ELSE @,
                           ![i].env = @ \cup Default(@)]
  /\ GoGuest(i, IF entry[i] = "none" THEN "halt" ELSE "exec")
  /\ UNCHANGED <<hostVars, entry>>

\* init forks the process of the entrypoint, or halts.
Exec(i) ==
  /\ gpc[i] = "exec"
  /\ GoGuest(i, "child") \/ GoGuest(i, "halt")
  /\ UNCHANGED <<hostVars, entry, guest>>

\* The entrypoint ends or cannot be executed; init syncs and powers off.
PowerOff(i) ==
  /\ gpc[i] = "child"
  /\ GoGuest(i, "off")
  /\ UNCHANGED <<hostVars, entry, guest>>

-----------------------------------------------------------------------------

Parent == LoadGolden \/ Fork \/ Wait
Host(p) == Parse(p) \/ TruncEntry(p) \/ WriteEntry(p) \/ TruncConf(p) \/ WriteConf(p)
Vm(i) == Host(i) \/ InitVm(i) \/ ConnectTap(i) \/ RestoreVm(i) \/ EndVm(i)
GuestInit(i) == MountShare(i) \/ ReadEntry(i) \/ ReadConf(i) \/ Apply(i) \/ Exec(i) \/ PowerOff(i)

ShareNext == Parent \/ Host(0) \/ \E i \in Vms : Vm(i) \/ GuestInit(i)

ShareSpec == ShareInit /\ [][ShareNext]_shareVars

-----------------------------------------------------------------------------

\* The variables have the types the code gives them.
ShareTypeOK ==
  /\ cmd \in {"restore", "clone"} /\ cfg.net \in BOOLEAN /\ Len(cfg.env) <= MaxEnv
  /\ pc \in [Procs -> {"none", "parse", "entry", "write", "conf", "lines", "load", "fork", "wait",
                       "init", "tap", "restore", "run", "exit", "done", "error"}]
  /\ forked \in 0..N /\ waited \in 0..N
  /\ \A d \in Procs : ep[d] \in {"none", "old", "empty", cfg.entry}
  /\ lost \subseteq Procs /\ over \subseteq Vms
  /\ tap \in [Vms -> BOOLEAN]
  /\ gpc \in [Vms -> {"mount", "entry", "conf", "apply", "exec", "child", "off", "halt"}]

\* Nobody wrote the files of VM i after it began to, and both could be opened.
Written(i) == i \notin over /\ Dir(i) \notin lost

\* The file is one the conversions keep: no escapes and nothing longer than its
\* buffer, no variable named as a key of the top level or of init, no two of the
\* same name but for "ENV_", and no more of them than fit.
Plain(i) ==
  LET env == Section(doc, "env") IN
  /\ \A k \in DOMAIN doc : doc[k].form = "plain"
  /\ \A k \in DOMAIN env :
       /\ env[k].key \notin {"entrypoint", "hostname", "HOSTNAME", "NET_IP", "NET_GW", "NET_MAC"}
       /\ \A m \in DOMAIN env : env[m].key = env[k].key => m = k
  /\ Len(env) <= MaxEnv /\ Len(Lines(i)) <= BufLines

\* A guest that runs its entrypoint has exactly the entrypoint, environment, host
\* name and address that a plain configuration file gives VM i, after parse_config(),
\* write_config_to_share() and init have each converted it: every variable K also
\* as ENV_K, and one named ENV_K also as K, the kernel's and init's defaults for
\* those the file does not set.  An address past the last valid byte is not set.
ConfigIsOwn ==
  \A i \in Vms : gpc[i] = "child" /\ Written(i) /\ Plain(i) =>
    LET env == Section(doc, "env")  net == Section(doc, "net")  g == guest[i]
        set == UNION {{<<m, e.key, e.val>> : m \in {e.pre - 1, e.pre, e.pre + 1} \cap Nat} : e \in Range(env)}
               \cup (IF net # <<>> THEN {<<0, "NET_MAC", i>>} ELSE {})
        kernel == {<<0, key, "kernel">> : key \in Missing(Inherited, set)}
    IN  /\ entry[i] = FirstOf(Section(doc, "top"), "entrypoint", "old")
        /\ g.host = FirstOf(Section(doc, "top"), "hostname", "none")
        /\ g.ip = IF net # <<>> /\ IpOf(i).d <= MaxOctet THEN IpOf(i) ELSE NoAddr
        /\ g.gw = FirstOf(net, "gateway", "none")
        /\ g.env = set \cup kernel \cup Default(set \cup kernel)

\* No guest runs anything but the entrypoint parse_config() read, however its
\* siblings rewrite the file meanwhile; with none configured, it is the one an
\* earlier run left in the directory.
EntrypointIsConfigured ==
  \A i \in Vms : gpc[i] \in {"exec", "child"} /\ Dir(i) \notin lost =>
    entry[i] = IF cfg.entry = "none" THEN "old" ELSE cfg.entry

\* A guest that mounted its share goes without an entrypoint only when none is
\* configured, unless a sibling rewrote the file after its own VM began to: the
\* file is complete before the VM that reads it starts.
HaltsOnlyWithoutEntrypoint ==
  \A i \in Vms : gpc[i] = "apply" /\ Written(i) /\ entry[i] = "none" =>
    cfg.entry = "none"

\* The parent says "all clones finished" only when every clone's process has
\* ended, in whatever order they end and whether or not their VM ever ran.
AllClonesFinished ==
  pc[0] = "done" => Exited = Vms
=============================================================================
