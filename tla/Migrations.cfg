CONSTANTS
    Onboarded <- MCOnboarded
    Shape <- MCShape
    Ingested <- MCIngested
    Early <- MCEarly
SPECIFICATION Spec
INVARIANTS
    HeadIsCanonical
    PacedIffGrouped
    UpgradeNeverStuck
