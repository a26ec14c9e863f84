----------------------------- MODULE MCChatTurn ------------------------------
(* Small instances of ChatTurn for TLC.                                    *)
EXTENDS ChatTurn

MCProfiles == {"claude", "gpt", "keyless", "gone"}

Entry(provider, kind, secret) ==
  [provider |-> provider, kind |-> kind, secret |-> secret]

\* "gone" is still the device's active profile but not in the catalog.
MCCatalog ==
  [p \in {"claude", "gpt", "keyless"} |->
     CASE p = "claude"  -> Entry("anthropic", "proxy-secret", TRUE)
       [] p = "gpt"     -> Entry("openai", "none", FALSE)
       [] p = "keyless" -> Entry("anthropic", "proxy-secret", FALSE)]

MCAdapters == {"anthropic", "openai"}

\* Two profiles that are served: the smaller instance.
MCServed == {"claude", "gpt"}
MCServedCatalog == [p \in MCServed |-> MCCatalog[p]]

=============================================================================
