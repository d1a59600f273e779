---------------------------- MODULE MCTrustChains ----------------------------
(* TrustChains over the orders in which six CA certificates can come in a list. *)
EXTENDS TrustChains, TLC

Cert(subject, issuer, key, signedBy) ==
    [subject |-> subject, issuer |-> issuer, key |-> key, signedBy |-> signedBy,
     ski |-> key, aki |-> signedBy, from |-> 0, until |-> 2]

\* The root; the same key certified by its predecessor (a link certificate) and a
\* root of the same name; a CA below the root; two CAs that certify each other.
root == Cert("un", "un", "un", "un")
link == Cert("un", "un", "un", "old")
namesake == Cert("un", "un", "other", "other")
below == Cert("mid", "un", "mid", "un")
crossA == Cert("mid", "far", "mid", "far")
crossB == Cert("far", "mid", "far", "mid")
CAs == {root, link, namesake, below, crossA, crossB}

\* Master-list signers of the root, of the CA below it, and of the namesake.
signers == {Cert("mls", "un", "mls", "un"), Cert("mls", "mid", "mls", "mid"),
            Cert("mls", "un", "mls", "other")}

\* A CSCA, its renewal with the same key, and one of the same name with a new key.
csca == [Cert("csca", "csca", "csca", "csca") EXCEPT !.until = 1]
renewed == [csca EXCEPT !.ski = "csca, by another method", !.from = 2, !.until = 2]
rollover == Cert("csca", "csca", "csca2", "csca2")

\* Signers of documents: of the CSCA, with and without a key identifier, one that runs
\* out before the last signing time, one whose period is not one, and one that only
\* bears the CSCA's name.
dsc == Cert("dsc", "csca", "dsc", "csca")
dscs == {dsc, [dsc EXCEPT !.aki = Unknown], [dsc EXCEPT !.until = 1],
         [dsc EXCEPT !.from = 2, !.until = 1], Cert("dsc", "csca", "dsc", "other")}

MCCerts == CAs \cup signers \cup {csca, renewed, rollover} \cup dscs

\* Every order of up to two distinct CAs, and of three that share a name or a chain.
Orders == {<<>>} \cup {<<a>> : a \in CAs}
    \cup {s \in CAs \X CAs : s[1] # s[2]}
    \cup {<<s[p[1]], s[p[2]], s[p[3]]>> :
              p \in Permutations(1 .. 3),
              s \in {<<root, link, below>>, <<crossA, crossB, below>>}}

List(signer, order, content, by, intact) ==
    [certs |-> <<signer>> \o order, signer |-> signer, by |-> by, content |-> content,
     intact |-> intact]

MCLists == {List(s, order, <<csca, renewed>>, "mls", TRUE) : s \in signers, order \in Orders}
    \cup {List(s, <<root>>, content, "mls", TRUE) :
              s \in signers, content \in {<<>>, <<rollover>>, <<rollover, renewed, csca>>}}
    \cup {List(s, <<root>>, <<rollover>>, "other", TRUE) : s \in signers}
    \cup {List(s, <<root>>, <<rollover>>, "mls", FALSE) : s \in signers}

MCDocuments == {[dsc |-> c, by |-> by, signingTime |-> time, intact |-> intact] :
                    c \in dscs, by \in {"dsc", "other"}, time \in {Unknown, 1, 2},
                    intact \in BOOLEAN}
=============================================================================
