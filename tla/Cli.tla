--------------------------------- MODULE Cli ----------------------------------
(***************************************************************************)
(* The command-line tool slnt (crates/slnt-cli/src/main.rs).  A run takes  *)
(* one command and prints one text; dispatch returns what is printed, as a *)
(* set that is empty for an error.  An argument in hexadecimal is a record *)
(* of its bytes and how many they are.                                     *)
(***************************************************************************)
EXTENDS KeyDerivation, MetaAddress

\* What a user may write, in any case of letters, and means.
NetworkNames ==
  {<<"mainnet", "Mainnet">>, <<"mainnet-beta", "Mainnet">>, <<"devnet", "Devnet">>,
   <<"testnet", "Testnet">>, <<"localnet", "Localnet">>}

parse_network(name) == {network \in Networks : <<name, network>> \in NetworkNames}

parse_fixed(n, hex) == IF hex.length = n THEN {hex.bytes} ELSE {}

MetaOf(k, i) ==
  [version |-> META_ADDRESS_VERSION_V1, b_spend |-> for_label(k.spend, k.scan, i).b_spend,
   b_scan |-> k.scan.public, label_index |-> i, flags |-> 0]

SignedKeys(hex) == UNION {derive_stealth_keys(signature) : signature \in parse_fixed(64, hex)}

\* Faulty: the label is written down, but its key is that of the unlabelled address.
LabelUntweaked(command) ==
  {encode_bech32m([MetaOf(k, 0) EXCEPT !.label_index = command.index]) : k \in SignedKeys(command.signature)}

Label(command) == {encode_bech32m(MetaOf(k, command.index)) : k \in SignedKeys(command.signature)}

dispatch(command) ==
  CASE command.name = "canonical-message" ->
         {canonical_message(network) : network \in parse_network(command.network)}
    [] command.name = "derive" -> {encode_bech32m(MetaOf(k, 0)) : k \in SignedKeys(command.signature)}
    [] command.name = "derive-hd" ->
         {encode_bech32m(MetaOf(k, 0)) : k \in derive_stealth_keys_hd(command.seed, command.account)}
    [] command.name = "label" -> Label(command)
    [] command.name = "meta-decode" -> decode_bech32m(command.meta)
    [] command.name = "pay" ->
         UNION {{derive_payment(m, r) : m \in {x \in decode_bech32m(command.meta) : CanDerive(x, r)}} :
                  r \in parse_fixed(32, command.rng)}
===============================================================================
