------------------------------- MODULE MCKeys -------------------------------
EXTENDS Keys

Dev(s, u, t, k) == [signer |-> s, uuid |-> u, tpm |-> t, soft |-> k]

\* A signer with and without its uuid, a signer that may also provision, a TPM alone, a TPM
\* beside a soft key, and soft keys only.
MCDevices == {Dev(TRUE, TRUE, FALSE, FALSE), Dev(TRUE, FALSE, FALSE, FALSE),
              Dev(TRUE, TRUE, FALSE, TRUE), Dev(FALSE, FALSE, TRUE, FALSE),
              Dev(FALSE, FALSE, TRUE, TRUE), Dev(FALSE, FALSE, FALSE, TRUE)}
=============================================================================
