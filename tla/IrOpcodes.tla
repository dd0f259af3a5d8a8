----------------------------- MODULE IrOpcodes -----------------------------
(***************************************************************************)
(* The opcodes of the IR reader: the variants of Instruction and           *)
(* Terminator (llvm-ir-patched/src/instruction.rs, terminator.rs).         *)
(***************************************************************************)
ArithmeticOps == {"Add", "Sub", "Mul", "UDiv", "SDiv", "URem", "SRem"}
BitwiseOps == {"And", "Or", "Xor"}
ShiftOps == {"Shl", "LShr", "AShr"}
FloatOps == {"FAdd", "FSub", "FMul", "FDiv", "FRem"}
BinaryOps == ArithmeticOps \cup BitwiseOps \cup ShiftOps \cup FloatOps
IntCastOps == {"Trunc", "ZExt", "SExt"}
FloatCastOps == {"FPTrunc", "FPExt", "FPToUI", "FPToSI", "UIToFP", "SIToFP"}
PointerCastOps == {"PtrToInt", "IntToPtr", "BitCast", "AddrSpaceCast"}
CastOps == IntCastOps \cup FloatCastOps \cup PointerCastOps
InstOps == BinaryOps \cup CastOps \cup
           {"FNeg", "ExtractElement", "InsertElement", "ShuffleVector",
            "ExtractValue", "InsertValue", "Alloca", "Load", "Store", "Fence",
            "CmpXchg", "AtomicRMW", "GetElementPtr", "ICmp", "FCmp", "Phi",
            "Select", "Freeze", "Call", "VAArg", "LandingPad", "CatchPad",
            "CleanupPad"}
TermOps == {"Ret", "Br", "Switch", "IndirectBr", "Invoke", "Resume",
            "Unreachable", "CleanupRet", "CatchRet", "CatchSwitch", "CallBr"}

\* Opcodes whose LLVM value is void, whose value may be either, and (all others)
\* whose value is never void.
VoidOps == {"Store", "Fence"} \cup (TermOps \ {"Invoke", "CatchSwitch", "CallBr"})
CalleeTyped == {"Call", "Invoke", "CallBr"}
=============================================================================
