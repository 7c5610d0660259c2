----------------------------- MODULE RakSettings -----------------------------
(***************************************************************************)
(* The settings of a RAK4631 with Ethernet, from the request that names    *)
(* them to the record a boot accepts: the management handlers, which edit  *)
(* a copy of the server's configuration and save all of it or none, and    *)
(* the validation that the save and the next boot share.                   *)
(*                                                                         *)
(* A hostname is a sequence of four kinds of characters and an address the *)
(* set of its one bits; dns stands for both name servers and `identity'    *)
(* for token, password and GPS, which are copied as they come.             *)
(* How the record is kept in flash is ConfigStore's.  Bounds: the sample   *)
(* addresses and masks, texts of TextLength, and RakChanges requests       *)
(* between two factory resets.                                             *)
(***************************************************************************)
EXTENDS Naturals, Sequences

CONSTANTS AddressBits, SampleAddresses, SampleMasks,
          ReservedAddresses,       \* first octet 0, 127 or from 224 on
          TextLength,              \* MAX_TEXT_LENGTH
          HostnameLength,          \* MAX_HOSTNAME_LENGTH
          RakChanges

Bits == 0 .. AddressBits - 1
Zero == {}
Broadcast32 == Bits

ASSUME RakAssumption ==
    /\ AddressBits \in Nat \ {0} /\ RakChanges \in Nat
    /\ SampleAddresses \union SampleMasks \union ReservedAddresses \subseteq SUBSET Bits
    /\ {Zero, Broadcast32} \subseteq ReservedAddresses
    /\ HostnameLength \in Nat \ {0} /\ TextLength \in Nat /\ TextLength >= HostnameLength

VARIABLES stored,                  \* the record in flash
          editing,                 \* managementConfig
          changes                  \* requests since the last factory reset

rakVars == <<stored, editing, changes>>

HTTP_PORT == 80
DEFAULT_PORT == 5055
Ports == {0, HTTP_PORT, DEFAULT_PORT}
Characters == {"lower", "upper", "-", "other"}
Texts == UNION {[1 .. n -> Characters] : n \in 0 .. TextLength}
-----------------------------------------------------------------------------
(* Validation *)

\* sanitizeHostname(): upper case is lowered, all else but a hyphen becomes one, and no
\* label begins with one, ends with one or has two in a row.
LabelCharacter(ch) == CASE ch \in {"lower", "upper"} -> "lower" [] ch \in {"-", "other"} -> "-"
LabelGrown(label, ch) ==
    IF \/ Len(label) = HostnameLength
       \/ LabelCharacter(ch) = "-" /\ (label = <<>> \/ label[Len(label)] = "-")
    THEN label
    ELSE Append(label, LabelCharacter(ch))

\* The label after the first n characters, n = 0 .. Len(text).
Labels(text) ==
    LET label[n \in 0 .. Len(text)] ==
          IF n = 0 THEN <<>> ELSE LabelGrown(label[n - 1], text[n])
    IN label

\* Mutant: the hyphen that the length limit left at the end stays.
LabelUntrimmed(label) == label

LabelTrimmed(label) ==
    IF label # <<>> /\ label[Len(label)] = "-" THEN SubSeq(label, 1, Len(label) - 1) ELSE label
Sanitized(text) == LabelTrimmed(Labels(text)[Len(text)])

\* refreshEffectiveHostname(): a board without a name has one made of its MAC.
Generated == [i \in 1 .. HostnameLength |-> "lower"]
EffectiveHostname(c) == IF Sanitized(c.hostname) = <<>> THEN Generated ELSE Sanitized(c.hostname)

UsableUnicast(address) == address \notin ReservedAddresses
ValidOptionalDns(c) == c.dns = Zero \/ UsableUnicast(c.dns)

\* address + 1 modulo 2^AddressBits: a bit flips when every lower one is set.
Incremented(address) == {b \in Bits : (b \in address) # (0 .. b - 1 \subseteq address)}

\* isValidStaticNetwork()
ValidStaticNetwork(c) ==
    LET inverted == Bits \ c.subnet
        network == c.ip \cap c.subnet
        broadcast == network \union inverted
    IN /\ c.subnet \notin {Zero, Broadcast32} /\ inverted \cap Incremented(inverted) = Zero
       /\ UsableUnicast(c.ip) /\ UsableUnicast(c.gateway) /\ c.ip # c.gateway
       /\ c.gateway \cap c.subnet = network
       /\ c.ip \notin {network, broadcast} /\ c.gateway \notin {network, broadcast}

\* validateAndNormalize(), after which the hostname is a label.
ValidSettings(c) ==
    /\ c.port \notin {0, HTTP_PORT}
    /\ c.static => Zero \notin {c.ip, c.subnet, c.gateway} /\ ValidStaticNetwork(c)
    /\ ValidOptionalDns(c)
Normalized(c) == [c EXCEPT !.hostname = Sanitized(@)]

\* makeDefaults()
Defaults == [hostname |-> Sanitized(<<"lower">>), static |-> FALSE, ip |-> Zero, subnet |-> Zero,
             gateway |-> Zero, dns |-> Zero, port |-> DEFAULT_PORT, identity |-> 0]

\* encode() and decode() hold a record to the same rules.
Encoded(c) == Normalized(c)
Decodes(record) == ValidSettings(record)
-----------------------------------------------------------------------------
(* The handlers *)

\* persist(): saved, or a save that failed and may still have left a record.  What is
\* refused changes nothing, and is no step.
Persist(c) ==
    /\ ValidSettings(c)
    /\ \/ stored' = Encoded(Normalized(c)) /\ editing' = Normalized(c)
       \/ stored' \in {stored, Encoded(Normalized(c))} /\ editing' = editing
    /\ changes' = changes + 1

\* handleHostname(); copyText() refuses what is longer.
HostnamePosted == \E text \in Texts : Persist([editing EXCEPT !.hostname = text])

\* handleNetwork(): every address, or none of them.
NetworkPosted ==
    \E port \in Ports :
      \/ \E ip, gateway, dns \in SampleAddresses, subnet \in SampleMasks :
           Persist([editing EXCEPT !.static = TRUE, !.ip = ip, !.subnet = subnet,
                                   !.gateway = gateway, !.dns = dns, !.port = port])
      \/ Persist([editing EXCEPT !.static = FALSE, !.ip = Zero, !.subnet = Zero,
                                 !.gateway = Zero, !.dns = Zero, !.port = port])

\* handleToken(), handleAuth() and handleGps()
IdentityPosted == \E v \in {0, 1} : Persist([editing EXCEPT !.identity = v])

\* parseJsonConfig() and parseNetwork(): each member once, in any order, over a copy of
\* the configuration; one that is unknown, twice there or malformed refuses all of it.
JsonMembers == {"hostname", "static", "ip", "subnet", "gateway", "dns", "port", "identity"}
JsonValues(member) ==
    CASE member = "hostname" -> {<<"other", "upper">>}
      [] member = "static" -> BOOLEAN
      [] member = "port" -> Ports
      [] member = "subnet" -> SampleMasks
      [] member = "identity" -> {1}
      [] member \in {"ip", "gateway", "dns"} -> SampleAddresses
JsonPosted ==
    \E first, second \in JsonMembers :
      \E x \in JsonValues(first), y \in JsonValues(second) :
        Persist([editing EXCEPT ![first] = x, ![second] = y])

\* A reset: begin() loads the record, if it decodes.
Restarted ==
    /\ editing' = IF Decodes(stored) THEN stored ELSE Defaults
    /\ UNCHANGED <<stored, changes>>

\* factoryReset() erases both pages; the modem restarts.
FactoryErased == stored' = Defaults /\ editing' = Defaults /\ changes' = 0

RakInit == stored = Defaults /\ editing = Defaults /\ changes = 0
RakNext ==
    \/ /\ changes < RakChanges
       /\ HostnamePosted \/ NetworkPosted \/ IdentityPosted \/ JsonPosted
    \/ Restarted \/ FactoryErased

RakSpec == RakInit /\ [][RakNext]_rakVars
-----------------------------------------------------------------------------
Addresses32 == SUBSET Bits
RakConfigs == [hostname : Seq(Characters), static : BOOLEAN, ip : Addresses32,
               subnet : Addresses32, gateway : Addresses32, dns : Addresses32,
               port : Ports, identity : {0, 1}]
RakTypeOK == stored \in RakConfigs /\ editing \in RakConfigs /\ changes \in 0 .. RakChanges

\* A DNS label: lower case, hyphens only inside and never two in a row.
IsLabel(text) ==
    /\ Len(text) <= HostnameLength
    /\ \A i \in 1 .. Len(text) :
         /\ text[i] \in {"lower", "-"}
         /\ text[i] = "-" => i \notin {1, Len(text)} /\ text[i + 1] # "-"

\* Two hosts of one subnet with h host bits, neither the first nor the last of it.
SameSubnetHosts(c, h) ==
    LET host == 0 .. h - 1
    IN /\ c.subnet = h .. AddressBits - 1 /\ c.ip \ host = c.gateway \ host
       /\ c.ip # c.gateway
       /\ c.ip \cap host \notin {{}, host} /\ c.gateway \cap host \notin {{}, host}

\* Whatever requests were sent and whichever saves failed, the record in flash and the
\* server's copy are ones that a boot takes as they are and that keep the modem
\* reachable: its addresses form a network, its port is not the management server's and
\* its name is a label, or empty and then replaced (validateAndNormalize(),
\* isValidStaticNetwork() and sanitizeHostname() against their definitions).
StoredConfigBoots ==
    \A c \in {stored, editing} :
      /\ Decodes(c) /\ Normalized(c) = c
      /\ IsLabel(c.hostname) /\ IsLabel(EffectiveHostname(c)) /\ EffectiveHostname(c) # <<>>
      /\ c.port \notin {0, HTTP_PORT}
      /\ c.static => /\ \E h \in 1 .. AddressBits - 1 : SameSubnetHosts(c, h)
                     /\ c.ip \notin ReservedAddresses /\ c.gateway \notin ReservedAddresses
=============================================================================
