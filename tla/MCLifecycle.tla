----------------------------- MODULE MCLifecycle -----------------------------
(* Two listeners, the public one and a client's: see Lifecycle.cfg.           *)
EXTENDS Lifecycle, TLC
MCBindOrder == <<"imap", "inbound">>
MCSettings == {{"cert", "port25", "resolver", "sts", "dane", "spf", "dmarc", "greylist"},
               {"port25", "resolver"}, {"sts", "spf", "greylist"},
               {"cert", "resolver", "spf"}, {"cert", "port25", "dmarc"}}
MCLimit == "inbound" :> 1 @@ "imap" :> 2
=============================================================================
