SPECIFICATION Spec
CONSTANTS
    Modulus <- MCModulus
    NaN = NaN
    Variants <- MCVariants
    BadStatuses = {"Bad"}
    MonitoringParameters <- MCParameters
INVARIANTS ClientIsClose ConversionIsChecked
