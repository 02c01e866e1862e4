--------------------------- MODULE MCShareConfig ---------------------------
EXTENDS ShareConfig

Entry(sec, pre, key, val, form) ==
  <<[sec |-> sec, pre |-> pre, key |-> key, val |-> val, form |-> form]>>
Top(form) == Entry("top", 0, "hostname", "h", "plain") \o Entry("top", 0, "entrypoint", "cfg", form)
Addr(d, cidr) ==
  Entry("net", 0, "ip", [d |-> d, cidr |-> cidr], "plain") \o Entry("net", 0, "gateway", "gw", "plain")
Env(key, val) == Entry("env", 0, key, val, "plain")
Three == Env("A", "1") \o Env("B", "2") \o Env("C", "3")

\* As many variables as VmConfig holds; an address the second VM counts past the
\* last byte, variables named with "ENV_" and as a default; an address without a
\* prefix length, and more lines than init reads; variables named as a key of the
\* file and as one of init's; values with escapes, and one that is cut; a value
\* that spells the entrypoint's key, and a key that is cut; more variables than
\* VmConfig holds, and no entrypoint.
MCDocs ==
  {Top("plain") \o Three,
   Top("plain") \o Addr(255, TRUE) \o Entry("env", 1, "A", "1", "plain") \o Env("HOME", "2"),
   Top("plain") \o Addr(7, FALSE) \o Three,
   Env("hostname", "v") \o Top("plain") \o Env("NET_IP", [d |-> 9, cidr |-> TRUE]),
   Top("escaped") \o Entry("env", 0, "A", "1", "escaped") \o Entry("env", 0, "B", "2", "long") \o Env("C", "3"),
   Entry("env", 0, "A", "entrypoint", "entrypoint") \o Top("plain") \o Entry("env", 0, "B", "2", "longkey"),
   Three \o Env("D", "4")}
=============================================================================
